---------------------------- MODULE Spec2Model ----------------------------
(***************************************************************************)
(* State-machine model of src/国家法律法规数据库/main.py: the ledger        *)
(* (SQLite tables keyed by id), the output tree on disk, the Reconciler    *)
(* (sync_db), the flag reset, the crawl insert, the download and parse     *)
(* batches, discovery (check_items) and download_doc step by step, the     *)
(* cookie cache (get_cookies, clear_cookies), the paged crawl of one       *)
(* category (crawl_type, fetch_api), request(), the Formatter and its line *)
(* filter, the document parsers, reorg_files_by_type, the command line,    *)
(* the Path Classifier (get_path) on text and parse_doc step by step.      *)
(*                                                                         *)
(* Text is modelled as sequences of one-character strings, so that the     *)
(* sanitising and stripping of titles is computed, not assumed.            *)
(***************************************************************************)
EXTENDS Integers, Sequences, FiniteSets, TLC

(***************************************************************************)
(* Bounds of the model.                                                    *)
(***************************************************************************)
NumIds == 2

(***************************************************************************)
(* Program constants.                                                      *)
(***************************************************************************)
PipelineType == 1

NoId == 0

Ids == 1..NumIds

TypeIds == {1, 3}

(***************************************************************************)
(* Text helpers.                                                           *)
(***************************************************************************)
PathChars == {"/", "\\", ":", "*", "?", "\"", "<", ">", "|"}

RECURSIVE LStripSet(_, _)
LStripSet(s, cs) ==
  IF s # <<>> /\ Head(s) \in cs THEN LStripSet(Tail(s), cs) ELSE s

RECURSIVE RStripSet(_, _)
RStripSet(s, cs) ==
  IF s # <<>> /\ s[Len(s)] \in cs
  THEN RStripSet(SubSeq(s, 1, Len(s) - 1), cs)
  ELSE s

StripSet(s, cs) == RStripSet(LStripSet(s, cs), cs)

\* re.sub(r'[/\\:*?"<>|]', "_", title).strip()
SanitizeTitle(title) ==
  StripSet([i \in 1..Len(title) |->
              IF title[i] \in PathChars THEN "_" ELSE title[i]], {" "})

\* the name of the id as text
IdName(i) ==
  CASE i = 1 -> <<"a">>
    [] i = 2 -> <<"b">>
    [] i = 3 -> <<"c">>
    [] i = 5 -> <<".", ".", "/", "e">>
    [] OTHER -> <<"d">>

\* the title the remote catalogue lists for an id
RemoteTitle(i) ==
  CASE i = 1 -> <<"x", "/">>
    [] i = 2 -> <<"x", "_">>
    [] OTHER -> <<>>


\* the NULL of a column or a key that an item lacks
NoTitle == <<"NULL">>

AsciiAlnum == {"x", "y", "a", "b", "c", "d"}

\* download_doc: "".join(c if c.isascii() and (c.isalnum() or c in " -_")
\*                        else "_" for c in legal_title).strip("_ ")
AsciiTitle(title) ==
  StripSet([i \in 1..Len(title) |->
              IF title[i] \in AsciiAlnum \cup {" ", "-", "_"}
              THEN title[i] ELSE "_"], {"_", " "})

\* find_doc: re.compile(r"[^\w\s\-_]").sub("_", legal_title).strip("_ ")
FindAsciiTitle(title) ==
  StripSet([i \in 1..Len(title) |->
              IF title[i] \in AsciiAlnum \cup {"U", " ", "-", "_"}
              THEN title[i] ELSE "_"], {"_", " "})

MaxNameBytes == 180

\* download_doc._truncate_component, for one-byte characters
TruncateComponent(name) ==
  IF Len(name) <= MaxNameBytes
  THEN RStripSet(name, {" ", "."})
  ELSE LET trimmed == RStripSet(SubSeq(name, 1, MaxNameBytes),
                                {" ", ".", "_", "-"})
       IN IF trimmed # <<>> THEN trimmed
          ELSE RStripSet(SubSeq(name, 1, 60), {" ", ".", "_"})

\* download_doc: the candidate file names, in the order they are tried
CandidateNames(id, title) ==
  LET s  == TruncateComponent(SanitizeTitle(title))
      a  == TruncateComponent(AsciiTitle(title))
      c1 == IF SanitizeTitle(title) # <<>> /\ s # <<>> THEN <<s>> ELSE <<>>
      c2 == IF AsciiTitle(title) # <<>> /\ a # <<>> /\ (c1 = <<>> \/ a # c1[1])
            THEN c1 \o <<a>> ELSE c1
      seen == {c2[k] : k \in 1..Len(c2)}
  IN IF IdName(id) \in seen THEN c2 ELSE c2 \o <<IdName(id)>>

(***************************************************************************)
(* The state.                                                              *)
(*   ledger : the rows of the category tables, a set of records keyed by   *)
(*            (table, id)                                                  *)
(*   fs     : the files below BASE_DIR, records [dir, name, ext, size]     *)
(*   dirs   : the directories that exist besides BASE_DIR itself           *)
(*   lastOp : the operation that ran last, with what it reported           *)
(*   disc   : the position and the locals of one process_items run         *)
(*   dl     : the position and the locals of one download_doc call         *)
(*   ck     : cookie_cache, COOKIE_LOCK and what the handshakes did        *)
(*   th     : the threads that call get_cookies and clear_cookies          *)
(*   crawl  : one crawl_type call and its page workers                     *)
(*   rq     : one request() call                                           *)
(*   fm     : the calls made on FORMATTER                                  *)
(*   fl     : the loop of one _filter_content call                         *)
(*   pr     : the documents handed to HTML.parse and Word.parse            *)
(*   ro     : one reorg_files_by_type call                                 *)
(*   cli    : one run of the command line (__main__)                       *)
(*   gp     : one get_path call, its arguments and what it returned        *)
(*   pd     : one parse_doc call and the markdown files at its paths       *)
(***************************************************************************)
VARIABLES ledger, fs, dirs, lastOp, disc, dl, ck, th, crawl, rq, fm, fl, pr, ro, cli,
          gp, pd

vars ==
  <<ledger, fs, dirs, lastOp, disc, dl, ck, th, crawl, rq, fm, fl, pr, ro,
    cli, gp, pd>>

\* the ledger, the tree and the calls that work on them
store == <<ledger, fs, dirs, lastOp, disc, dl>>

\* the session state, the threads that use it, request(), the formatter,
\* the parsers and the command line
others == <<ck, th, crawl, rq, fm, fl, pr, ro, cli, gp, pd>>

\* BASE_DIR / type name, BASE_DIR / type code, BASE_DIR
DirName == "name"

DirCode == "code"

DirBase == "base"

\* the size of a file that holds a whole document
FullSize == 2

DigestName == <<"h">>

Op(o, n, ids, seq) == [op |-> o, n |-> n, ids |-> ids, seq |-> seq]

RowsOf(L, t) == {r \in L : r.table = t}

HasRow(L, t, i) == \E r \in L : r.table = t /\ r.id = i

\* INSERT OR REPLACE keyed by the primary key id
InsertOrReplace(L, t, row) ==
  {r \in L : ~(r.table = t /\ r.id = row.id)}
    \cup {[row EXCEPT !.table = t]}

\* cursor.executemany in autocommit mode: the rows go in one by one and the
\* first row that violates title NOT NULL raises IntegrityError and ends it
RECURSIVE InsertRows(_, _, _)
InsertRows(L, t, rows) ==
  IF rows = <<>> THEN L
  ELSE IF Head(rows).title = NoTitle THEN L
  ELSE InsertRows(InsertOrReplace(L, t, Head(rows)), t, Tail(rows))

\* prepare_db_rows: one row per item that has an id, keyed by bbbs or id,
\* always with saved = 0 and parsed = 0
RECURSIVE PrepareDbRows(_)
PrepareDbRows(items) ==
  IF items = <<>> THEN <<>>
  ELSE LET it == Head(items)
       IN IF it.id = NoId THEN PrepareDbRows(Tail(items))
          ELSE <<[table |-> 0,
                  id |-> IF it.bbbs # NoId THEN it.bbbs ELSE it.id,
                  title |-> it.title,
                  saved |-> 0, parsed |-> 0,
                  bbbs_id |-> it.bbbs]>> \o PrepareDbRows(Tail(items))

\* the ids of a set in ascending order
RECURSIVE SetToSeq(_)
SetToSeq(S) ==
  IF S = {} THEN <<>>
  ELSE LET m == CHOOSE x \in S : \A y \in S : x <= y
       IN <<m>> \o SetToSeq(S \ {m})

\* a listing page item of the category crawl
CatalogItem(i) ==
  [id |-> i, bbbs |-> NoId, title |-> RemoteTitle(i), type |-> "xffl"]


(***************************************************************************)
(* Reconciler: determine_dir and sync_db.                                  *)
(***************************************************************************)
\* determine_dir for a category that is neither 6 nor 7..10: BASE_DIR/name
\* when it exists, else BASE_DIR/code when that exists, else None
DetermineDir(ds) ==
  IF DirName \in ds THEN DirName
  ELSE IF DirCode \in ds THEN DirCode
  ELSE "none"

\* sync_table: any(p.exists() and p.stat().st_size > 0 for p in paths)
MdExists(d, r, files) ==
  \E f \in files :
    /\ f.dir = d /\ f.ext = "md" /\ f.size > 0
    /\ f.name \in {SanitizeTitle(r.title), IdName(r.id)}

SyncTarget(r, files, ds) ==
  IF MdExists(DetermineDir(ds), r, files) THEN 1 ELSE 0

\* sync_table: the rows that get an UPDATE
SyncUpdates(L, files, ds) ==
  {r \in RowsOf(L, PipelineType) :
     /\ r.title # <<>>
     /\ DetermineDir(ds) # "none"
     /\ <<SyncTarget(r, files, ds), SyncTarget(r, files, ds)>>
          # <<r.saved, r.parsed>>}

\* a sync that repairs saved and leaves parsed as it is
SyncApplySavedOnly(r, files, ds) ==
  [r EXCEPT !.saved = SyncTarget(r, files, ds)]

\* UPDATE ... SET saved = ?, parsed = ? WHERE id = ?
SyncApply(r, files, ds) ==
  [r EXCEPT !.saved = SyncTarget(r, files, ds),
            !.parsed = SyncTarget(r, files, ds)]

SyncDb ==
  LET ups == SyncUpdates(ledger, fs, dirs)
  IN /\ ledger' = (ledger \ ups) \cup {SyncApply(r, fs, dirs) : r \in ups}
     \* n: the updates of this pass; ids: the rows the first pass of a run
     \* of consecutive passes updated; seq: first or later pass
     /\ lastOp' = Op("sync", Cardinality(ups),
                     IF lastOp.op = "sync" THEN lastOp.ids
                     ELSE {r.id : r \in ups},
                     IF lastOp.op = "sync" THEN 2 ELSE 1)
     /\ UNCHANGED <<fs, dirs, disc, dl, others>>

(***************************************************************************)
(* find_doc and reset_state_flags.                                         *)
(***************************************************************************)
SourceExts == {"docx"}

\* find_doc for a row without a classified subfolder: a non-empty source
\* file named by the sanitised or the ASCII title in BASE_DIR/name
FindDocIn(d, title, files, ds) ==
  /\ d \in ds
  /\ \E f \in files :
       /\ f.dir = d /\ f.ext \in SourceExts /\ f.size > 0
       /\ f.name \in {SanitizeTitle(title), FindAsciiTitle(title)} \ {<<>>}

FindDoc(title, files, ds) == FindDocIn(DirName, title, files, ds)

\* BASE_DIR / type name of a category
TypeDir(t) == IF t = PipelineType THEN DirName ELSE "name3"

\* selected_types: every category for type id 0, else the one named
ResetTypes(target) == IF target = 0 THEN TypeIds ELSE {target} \cap TypeIds

\* the calls of reset_state_flags that are tried: mode, type id (0 is every
\* category, 99 is no category) and keep_parsed
ResetCalls ==
  ({"missing", "all"} \X {PipelineType} \X BOOLEAN)
    \cup {<<"all", 0, FALSE>>, <<"other", PipelineType, FALSE>>,
          <<"all", 99, FALSE>>, <<"all", 0, TRUE>>, <<"missing", 0, TRUE>>}

\* the same without the find_doc test of mode "missing"
ResetSelectedAny(L, types, mode, keep_parsed) ==
  {r \in L :
     /\ r.table \in types
     /\ (r.saved = 1 \/ (~keep_parsed /\ r.parsed = 1))}

\* the rows of the selected categories that get an UPDATE
ResetSelected(L, types, mode, keep_parsed) ==
  {r \in L :
     /\ r.table \in types
     /\ (r.saved = 1 \/ (~keep_parsed /\ r.parsed = 1))
     /\ ~(mode = "missing"
            /\ FindDocIn(TypeDir(r.table), r.title, fs, dirs))}

ResetRowBoth(r, keep_parsed) == [r EXCEPT !.saved = 0, !.parsed = 0]

\* UPDATE ... SET saved = 0 and, without keep_parsed, SET parsed = 0
ResetRow(r, keep_parsed) ==
  [r EXCEPT !.saved = 0,
            !.parsed = IF keep_parsed THEN r.parsed ELSE 0]

ResetStateFlags(mode, target, keep_parsed) ==
  LET valid == mode \in {"missing", "all"} /\ target \in {0} \cup TypeIds
      sel == IF valid
             THEN ResetSelected(ledger, ResetTypes(target), mode, keep_parsed)
             ELSE {}
  IN /\ ledger' = (ledger \ sel) \cup {ResetRow(r, keep_parsed) : r \in sel}
     /\ lastOp' = Op("reset", 0, {}, 1)
     /\ UNCHANGED <<fs, dirs, disc, dl, others>>

(***************************************************************************)
(* crawl_type: the ledger insert of a category crawl.                      *)
(***************************************************************************)
CrawlInsert(S) ==
  LET rows == PrepareDbRows([k \in 1..Cardinality(S) |->
                               CatalogItem(SetToSeq(S)[k])])
  IN /\ ledger' = InsertRows(ledger, PipelineType, rows)
     /\ lastOp' = Op("crawl", 0, S, 1)
     /\ UNCHANGED <<fs, dirs, disc, dl, others>>


(***************************************************************************)
(* parse_doc and the parse batch (parse_docs), each as one step.           *)
(***************************************************************************)
SamePath(f, g) == f.dir = g.dir /\ f.name = g.name /\ f.ext = g.ext

\* a write that replaces what was at the path
WriteFiles(files, new) ==
  {f \in files : ~\E g \in new : SamePath(f, g)} \cup new

\* what can become of one parse_doc call whose source file was found:
\* no output (parser, formatter or every write failed, or an exception
\* left the call and the batch caught it), the markdown under the title,
\* under the id, or under the digest
ParseOutcomes == {"fail", "title", "id", "digest"}

MdFile(name) == [dir |-> DirName, name |-> name, ext |-> "md", size |-> 1]

\* parse_doc: the markdown file written for row r under outcome po
ParseOutput(r, po) ==
  LET clean == SanitizeTitle(r.title)
      first == IF clean # <<>> THEN clean ELSE IdName(r.id)
  IN CASE po = "title" -> {MdFile(first)}
       [] po = "id" -> {MdFile(IdName(r.id))}
       [] po = "digest" -> {MdFile(DigestName)}
       [] OTHER -> {}

\* the rows of targets whose source file find_doc finds
ParseFound(targets, files, ds) ==
  {r \in targets : FindDoc(r.title, files, ds)}

ParsePendingUnsaved(L) ==
  {r \in RowsOf(L, PipelineType) : r.parsed = 0 /\ r.title # <<>>}

\* the rows parse_docs hands to parse_doc
ParsePending(L) ==
  {r \in RowsOf(L, PipelineType) :
     r.saved = 1 /\ r.parsed = 0 /\ r.title # <<>>}

\* the rows parse_items hands to parse_doc
ParseItemsPending(L, ids) ==
  {r \in RowsOf(L, PipelineType) :
     r.id \in ids /\ r.saved = 1 /\ r.title # <<>>}

\* the ids for which parse_doc returned success
ParseSuccesses(pout) ==
  {i \in DOMAIN pout : pout[i] # "fail"}

\* the ledger and the files after parse_doc ran on a batch of rows, found
\* being those whose source file exists: parsed = 1 for the successes
ParseBatch(L, files, found, pout) ==
  LET ok == {r \in found : pout[r.id] # "fail"}
  IN [ledger |-> (L \ ok) \cup {[r EXCEPT !.parsed = 1] : r \in ok},
      fs |-> WriteFiles(files, UNION {ParseOutput(r, pout[r.id]) : r \in ok}),
      n |-> Cardinality(ok)]

\* parse_docs; lastOp keeps the number of rows submitted and the ids for
\* which parse_doc returned success
ParseDocs ==
  LET sub == ParsePending(ledger)
      found == ParseFound(sub, fs, dirs)
  IN \E pout \in [{r.id : r \in found} -> ParseOutcomes] :
       LET res == ParseBatch(ledger, fs, found, pout)
       IN /\ ledger' = res.ledger
          /\ fs' = res.fs
          /\ lastOp' = Op("parse_docs", Cardinality(sub),
                          ParseSuccesses(pout), 1)
          /\ UNCHANGED <<dirs, disc, dl, others>>

\* parse_items on the rows with these ids
ParseItems(ids) ==
  LET sub == ParseItemsPending(ledger, ids)
      found == ParseFound(sub, fs, dirs)
  IN \E pout \in [{r.id : r \in found} -> ParseOutcomes] :
       LET res == ParseBatch(ledger, fs, found, pout)
       IN /\ ledger' = res.ledger
          /\ fs' = res.fs
          /\ lastOp' = Op("parse_items", Cardinality(sub),
                          ParseSuccesses(pout), 1)
          /\ UNCHANGED <<dirs, disc, dl, others>>

(***************************************************************************)
(* download_doc and the download batch (download_items), each as one step. *)
(***************************************************************************)
\* what can become of one download_doc call: the URL does not resolve, it
\* resolves to the no-source extension, the GET of the binary fails, or the
\* body is stored; d is the directory that was writable, here always the
\* first of the fallback chain (the chain itself is walked in DlProbe)
DownloadOutcomes ==
  [o : {"unresolved", "nosource", "neterr", "stored"}, d : {DirName}]

SourceFile(d, name) ==
  [dir |-> d, name |-> name, ext |-> "docx", size |-> FullSize]

\* download_doc: an existing non-empty file at one of the candidate paths
CandidateExists(r, d, files) ==
  LET cands == CandidateNames(r.id, r.title)
  IN \E k \in 1..Len(cands) : \E f \in files :
       f.dir = d /\ f.name = cands[k] /\ f.ext = "docx" /\ f.size > 0

\* download_doc on row r with outcome out, from st = [fs, dirs, done]
DownloadDoc(st, r, out) ==
  IF out.o = "unresolved" THEN st
  ELSE IF out.o = "nosource" THEN [st EXCEPT !.done = @ \cup {r.id}]
  ELSE LET ds == st.dirs \cup ({out.d} \ {DirBase})
       IN IF CandidateExists(r, out.d, st.fs)
          THEN [st EXCEPT !.dirs = ds, !.done = @ \cup {r.id}]
          ELSE IF out.o = "neterr" THEN [st EXCEPT !.dirs = ds]
          ELSE [fs |-> WriteFiles(st.fs,
                         {SourceFile(out.d, CandidateNames(r.id, r.title)[1])}),
                dirs |-> ds,
                done |-> st.done \cup {r.id}]

RECURSIVE RunDownloads(_, _, _, _)
RunDownloads(st, L, order, out) ==
  IF order = <<>> THEN st
  ELSE LET r == CHOOSE q \in RowsOf(L, PipelineType) : q.id = Head(order)
       IN RunDownloads(DownloadDoc(st, r, out[r.id]), L, Tail(order), out)

\* process_existing_items: WHERE saved = 0 AND title IS NOT NULL ... if
\* r[0] and r[1], the rows it hands to download_items
DownloadPending(L) ==
  {r \in RowsOf(L, PipelineType) : r.saved = 0 /\ r.title # <<>>}

MarkSaved(L, done) ==
  {IF r.table = PipelineType /\ r.id \in done
   THEN [r EXCEPT !.saved = 1] ELSE r : r \in L}

\* download_docs: the SELECT of the pending rows is made with a keyword
\* argument, which Connection.execute does not take; the TypeError leaves
\* the function through its last handler before any task is submitted
DownloadDocs(auto_parse) ==
  /\ lastOp' = Op("download_docs", 0, {}, 1)
  /\ UNCHANGED <<ledger, fs, dirs, disc, dl, others>>

\* download_items on the rows with these ids, and parse_items on the
\* successes when auto_parse is set
DownloadItems(ids, auto_parse) ==
  LET pids == {r.id : r \in {q \in RowsOf(ledger, PipelineType) :
                               q.id \in ids /\ q.title # <<>>}}
  IN \E out \in [pids -> DownloadOutcomes] :
       LET st == RunDownloads([fs |-> fs, dirs |-> dirs, done |-> {}],
                              ledger, SetToSeq(pids), out)
           saved == MarkSaved(ledger, st.done)
           targets == IF auto_parse THEN ParseItemsPending(saved, st.done)
                      ELSE {}
           found == ParseFound(targets, st.fs, st.dirs)
       IN \E pout \in [{r.id : r \in found} -> ParseOutcomes] :
            LET res == ParseBatch(saved, st.fs, found, pout)
            IN /\ ledger' = res.ledger
               /\ fs' = res.fs
               /\ dirs' = st.dirs
               /\ lastOp' = Op("download_items", 0, {}, 1)
               /\ UNCHANGED <<disc, dl, others>>

\* process_existing_items: the rows that wait for their download go to
\* download_items, with none of them those that wait for their parse go to
\* parse_items
ProcessExistingItems(download_enabled, parse_enabled) ==
  LET to_download == {r.id : r \in DownloadPending(ledger)}
      to_parse == {r.id : r \in ParsePending(ledger)}
  IN IF download_enabled /\ to_download # {}
     THEN DownloadItems(to_download, parse_enabled)
     ELSE IF parse_enabled /\ to_parse # {}
     THEN ParseItems(to_parse)
     ELSE /\ lastOp' = Op("none", 0, {}, 1)
          /\ UNCHANGED <<ledger, fs, dirs, disc, dl, others>>

(***************************************************************************)
(* What the user does to the tree between runs.                            *)
(***************************************************************************)
UserRemoveFile(f) ==
  /\ f \in fs
  /\ fs' = fs \ {f}
  /\ lastOp' = Op("remove", 0, {}, 1)
  /\ UNCHANGED <<ledger, dirs, disc, dl, others>>

UserRemoveDir(d) ==
  /\ d \in dirs
  /\ dirs' = dirs \ {d}
  /\ fs' = {f \in fs : f.dir # d}
  /\ lastOp' = Op("rmdir", 0, {}, 1)
  /\ UNCHANGED <<ledger, disc, dl, others>>

(***************************************************************************)
(* Discovery: process_items, that is check_items (_build, _paginate,       *)
(* _page) and the insert of process_type, one step per fetched page.       *)
(***************************************************************************)
MaxItems == 4

MaxRuns == 2

\* API_PAGE_SIZE, scaled down
PageSize == 2

\* get_type_id_from_code, 0 for None
GetTypeIdFromCode(c) ==
  CASE c = "xffl" -> 1
    [] c = "xzfg" -> 3
    [] OTHER -> 0

\* the items the remote listing is made of: a plain one, one with an
\* alternate id, one without a title key, one of an unknown type whose
\* title is that of the first up to white space, one without an id, one
\* that shares the alternate id of the second under another id, and one
\* that shares the id of the second and has no alternate id
DiscItems ==
  {[id |-> 1, bbbs |-> NoId, title |-> <<"x", "/">>, type |-> "xffl"],
   [id |-> 2, bbbs |-> 3, title |-> <<"x", "_">>, type |-> "xzfg"],
   [id |-> 2, bbbs |-> NoId, title |-> NoTitle, type |-> "xffl"],
   [id |-> 2, bbbs |-> NoId, title |-> <<"x", "/", " ">>, type |-> "none"],
   [id |-> NoId, bbbs |-> NoId, title |-> <<"y">>, type |-> "xffl"],
   [id |-> 4, bbbs |-> 3, title |-> <<"y">>, type |-> "xffl"],
   [id |-> 2, bbbs |-> NoId, title |-> <<"y">>, type |-> "xffl"]}

Listings == UNION {[1..n -> DiscItems] : n \in 0..MaxItems}

\* the page whose request fails, 0 when none does
FailPages == {0, 1, 2}

DiscIdle(remote, failAt, check, run) ==
  [remote |-> remote, failAt |-> failAt, titleCheck |-> check, run |-> run,
   phase |-> "idle", page |-> 1, ids |-> {}, titles |-> {},
   new |-> <<>>, log |-> <<>>]

\* _build: SELECT id ... UNION ALL SELECT bbbs_id ... over every table
ExistingIds(L) ==
  {r.id : r \in L} \cup ({r.bbbs_id : r \in L} \ {NoId})

\* _build: the stripped non-empty titles, only with the title check on
ExistingTitles(L, check) ==
  IF check THEN {StripSet(r.title, {" "}) : r \in L} \ {<<>>} ELSE {}

\* fetch_api(0, page): the slice of the listing, or an error
FetchApi(remote, failAt, page) ==
  LET lo == (page - 1) * PageSize + 1
      hi == IF page * PageSize < Len(remote) THEN page * PageSize
            ELSE Len(remote)
  IN [error |-> page = failAt,
      data |-> IF page = failAt \/ lo > Len(remote) THEN <<>>
               ELSE SubSeq(remote, lo, hi)]

\* _page: the id an item is looked up by, with the alternate id ignored
PrimaryIdNoAlt(it) == it.id

\* _page: primary_id = bbbs_id or item_id
PrimaryId(it) == IF it.bbbs # NoId THEN it.bbbs ELSE it.id

\* _page: item.get("title", "").strip()
ItemTitle(it) ==
  IF it.title = NoTitle THEN <<>> ELSE StripSet(it.title, {" "})

\* _page: what becomes of one item
Classify(it, ids, titles, check) ==
  IF it.id = NoId THEN "skip"
  ELSE IF PrimaryId(it) \in ids THEN "existing"
  ELSE IF check /\ ItemTitle(it) # <<>> /\ ItemTitle(it) \in titles
       THEN "existing"
  ELSE IF GetTypeIdFromCode(it.type) = 0 THEN "invalid"
  ELSE "new"

\* _page: page_new (in listing order), existing_count, invalid_count and
\* the items counted as existing
Page(items, ids, titles, check) ==
  LET cls(k) == Classify(items[k], ids, titles, check)
      idx == 1..Len(items)
  IN [new |-> SelectSeq(items,
                LAMBDA it : Classify(it, ids, titles, check) = "new"),
      existing |-> Cardinality({k \in idx : cls(k) = "existing"}),
      invalid |-> Cardinality({k \in idx : cls(k) = "invalid"}),
      known |-> {items[k] : k \in {j \in idx : cls(j) = "existing"}}]

\* a loop that ends at any page without a new item
StopPagingZeroNew(res, n) == res.new = <<>>

\* a loop that no page of known items ends
StopPagingNever(res, n) == FALSE

\* _paginate: if not found_new and page_existing == len(items): break
StopPaging(res, n) == res.new = <<>> /\ res.existing = n

\* check_items up to the first request of _paginate
DiscStart ==
  /\ disc.phase = "idle"
  /\ disc.run < MaxRuns
  /\ disc' = [disc EXCEPT !.phase = "paging", !.run = @ + 1,
                          !.ids = ExistingIds(ledger),
                          !.titles = ExistingTitles(ledger, disc.titleCheck)]
  /\ UNCHANGED <<ledger, fs, dirs, lastOp, dl, others>>

\* one turn of the loop of _paginate
DiscPage ==
  /\ disc.phase = "paging"
  /\ LET resp == FetchApi(disc.remote, disc.failAt, disc.page)
         n == Len(resp.data)
         res == Page(resp.data, disc.ids, disc.titles, disc.titleCheck)
     IN IF resp.error \/ resp.data = <<>>
        THEN disc' = [disc EXCEPT
               !.phase = "returned",
               !.log = Append(@, [page |-> disc.page, ok |-> FALSE,
                                  size |-> 0, new |-> 0, existing |-> 0,
                                  invalid |-> 0, known |-> {}])]
        ELSE disc' = [disc EXCEPT
               !.new = @ \o res.new,
               !.ids = @ \cup {res.new[k].id : k \in 1..Len(res.new)},
               !.log = Append(@, [page |-> disc.page, ok |-> TRUE,
                                  size |-> n, new |-> Len(res.new),
                                  existing |-> res.existing,
                                  invalid |-> res.invalid,
                                  known |-> res.known]),
               !.phase = IF StopPaging(res, n) THEN "returned" ELSE "paging",
               !.page = IF StopPaging(res, n) THEN @ ELSE @ + 1]
  /\ UNCHANGED <<ledger, fs, dirs, lastOp, dl, others>>

\* process_type for each category in turn: executemany of the rows of the
\* new items of that category
RECURSIVE InsertNew(_, _, _)
InsertNew(L, new, types) ==
  IF types = <<>> THEN L
  ELSE LET t == Head(types)
           mine == SelectSeq(new, LAMBDA it : GetTypeIdFromCode(it.type) = t)
       IN InsertNew(InsertRows(L, t, PrepareDbRows(mine)), new, Tail(types))

\* process_items after check_items returned, with download and parse off
DiscInsert ==
  /\ disc.phase = "returned"
  /\ ledger' = InsertNew(ledger, disc.new, SetToSeq(TypeIds))
  /\ disc' = DiscIdle(disc.remote, disc.failAt, disc.titleCheck, disc.run)
  /\ UNCHANGED <<fs, dirs, lastOp, dl, others>>

(***************************************************************************)
(* download_items and download_doc, step by step.  The calls of a batch    *)
(* share nothing but the tree and are taken one after the other.           *)
(***************************************************************************)
MaxBatches == 2

\* the suffix of a URL that has no source document: ".cnnone"
NoSourceExt == "cnnone"

\* the directories download_doc probes in turn
FallbackChain == <<DirName, DirCode, DirBase>>

\* the components of a path text, split at "/"
RECURSIVE SplitPath(_, _)
SplitPath(s, cur) ==
  IF s = <<>> THEN <<cur>>
  ELSE IF Head(s) = "/" THEN <<cur>> \o SplitPath(Tail(s), <<>>)
  ELSE SplitPath(Tail(s), Append(cur, Head(s)))

\* resolve(): TRUE when the walk along the components before the last one
\* (the last carries the extension) climbs above the directory it starts in
RECURSIVE Climbs(_, _)
Climbs(comps, depth) ==
  IF Len(comps) <= 1 THEN FALSE
  ELSE LET c == Head(comps)
           d == IF c = <<".", ".">> THEN depth - 1
                ELSE IF c \in {<<>>, <<".">>} THEN depth
                ELSE depth + 1
       IN d < 0 \/ Climbs(Tail(comps), d)

\* _safe_join: the joined path resolves below target_root; an absolute
\* name replaces the base and so does not
SafeJoin(name) ==
  /\ ~(name # <<>> /\ Head(name) = "/")
  /\ ~Climbs(SplitPath(name, <<>>), 0)

\* download_doc is not running; the fields are its locals and, for a batch,
\* those of download_items
DlIdle ==
  [pc |-> "idle", last |-> "none", runs |-> 0, queue |-> <<>>,
   completed |-> {}, nosource |-> {}, cur |-> NoId, ext |-> "",
   chain |-> <<>>, dir |-> DirName, probed |-> FALSE, cands |-> <<>>,
   k |-> 1, pos |-> 0, consumed |-> FALSE, tmp |-> <<>>,
   gets |-> 0, wrote |-> FALSE, checked |-> FALSE, result |-> "none"]

\* return from download_doc
Return(d, res) == [d EXCEPT !.pc = "returned", !.result = res]

\* the row of the category with this id
RowOf(L, i) == CHOOSE r \in RowsOf(L, PipelineType) : r.id = i

\* download_docs: the TypeError of its first SELECT ends it before any
\* task is submitted
DlDocs ==
  /\ dl.pc = "idle"
  /\ dl.runs < MaxBatches
  /\ dl' = [dl EXCEPT !.runs = @ + 1, !.last = "typeerror"]
  /\ UNCHANGED <<ledger, fs, dirs, lastOp, disc, others>>

\* process_existing_items and download_items up to the submission of the
\* tasks
DlBatchStart ==
  /\ dl.pc = "idle"
  /\ dl.runs < MaxBatches
  /\ LET pids == {r.id : r \in DownloadPending(ledger)}
     IN dl' = IF pids = {}
              THEN [dl EXCEPT !.runs = @ + 1, !.last = "nopending"]
              ELSE [DlIdle EXCEPT !.pc = "next", !.runs = dl.runs + 1,
                                  !.queue = SetToSeq(pids)]
  /\ UNCHANGED <<ledger, fs, dirs, lastOp, disc, others>>

\* the next download_doc call starts
DlNextTask ==
  /\ dl.pc = "next"
  /\ dl.queue # <<>>
  /\ LET r == RowOf(ledger, Head(dl.queue))
     IN dl' = [dl EXCEPT !.pc = "fetch_url", !.cur = r.id,
                         !.queue = Tail(@), !.ext = "", !.chain = <<>>,
                         !.dir = DirName, !.probed = FALSE,
                         !.cands = CandidateNames(r.id, r.title),
                         !.k = 1, !.pos = 0, !.consumed = FALSE,
                         !.tmp = <<>>, !.gets = 0, !.wrote = FALSE,
                         !.checked = FALSE, !.result = "none"]
  /\ UNCHANGED <<ledger, fs, dirs, lastOp, disc, others>>

\* a download_doc that fails on the no-source extension
FetchUrlReturnStrict(d, out) ==
  IF out = "fail" THEN Return(d, "fail")
  ELSE IF out = NoSourceExt
       THEN Return([d EXCEPT !.ext = out, !.nosource = @ \cup {d.cur}],
                   "fail")
  ELSE [d EXCEPT !.ext = out, !.pc = "probe", !.chain = FallbackChain]

\* download_doc from fetch_url to the extension test
FetchUrlReturn(d, out) ==
  IF out = "fail" THEN Return(d, "fail")
  ELSE IF out = NoSourceExt
       THEN Return([d EXCEPT !.ext = out, !.nosource = @ \cup {d.cur}],
                   "ok")
  ELSE [d EXCEPT !.ext = out, !.pc = "probe", !.chain = FallbackChain]

DlFetchUrl ==
  /\ dl.pc = "fetch_url"
  /\ \E out \in {"fail", "docx", NoSourceExt} : dl' = FetchUrlReturn(dl, out)
  /\ UNCHANGED <<ledger, fs, dirs, lastOp, disc, others>>

\* one turn of the loop over the directories: mkdir, then the empty
\* .write-test file is created and removed; or one of the two raises
\* OSError and the tree stays as it was
DlProbe ==
  /\ dl.pc = "probe"
  /\ LET d == Head(dl.chain)
         rest == Tail(dl.chain)
     IN \/ /\ dirs' = dirs \cup ({d} \ {DirBase})
           /\ dl' = [dl EXCEPT !.dir = d, !.probed = TRUE, !.chain = <<>>,
                               !.pc = "verify", !.wrote = TRUE]
        \/ /\ dirs' = dirs
           /\ dl' = [dl EXCEPT !.chain = rest,
                               !.pc = IF rest = <<>> THEN "verify"
                                      ELSE "probe"]
  /\ UNCHANGED <<ledger, fs, lastOp, disc, others>>

\* the loop that looks for an existing file: _safe_join of each candidate,
\* then exists() and st_size > 0
RECURSIVE VerifyLoop(_, _, _, _, _)
VerifyLoop(cands, k, d, ext, files) ==
  IF k > Len(cands) THEN "clear"
  ELSE IF ~SafeJoin(cands[k]) THEN "unsafe"
  ELSE IF \E f \in files : f.dir = d /\ f.name = cands[k]
                           /\ f.ext = ext /\ f.size > 0
       THEN "exists"
  ELSE VerifyLoop(cands, k + 1, d, ext, files)

\* a download_doc that fetches the document although a file is there
AfterVerifyRefetch(d, v) ==
  IF v = "unsafe" THEN Return(d, "fail") ELSE [d EXCEPT !.pc = "get"]

\* what download_doc does with the outcome of the loop: ValueError is
\* caught at the end, "if existing_path: return legal_id", else the GET
AfterVerify(d, v) ==
  CASE v = "unsafe" -> Return(d, "fail")
    [] v = "exists" -> Return(d, "ok")
    [] OTHER -> [d EXCEPT !.pc = "get"]

DlVerify ==
  /\ dl.pc = "verify"
  /\ LET v == VerifyLoop(dl.cands, 1, dl.dir, dl.ext, fs)
         d == [dl EXCEPT !.checked = SafeJoin(dl.cands[1])]
     IN dl' = AfterVerify(d, v)
  /\ UNCHANGED <<ledger, fs, dirs, lastOp, disc, others>>

\* request("GET", doc_url, stream=True)
DlGet ==
  /\ dl.pc = "get"
  /\ \/ dl' = [dl EXCEPT !.gets = @ + 1, !.pc = "open", !.k = 1]
     \/ dl' = Return([dl EXCEPT !.gets = @ + 1], "fail")
  /\ UNCHANGED <<ledger, fs, dirs, lastOp, disc, others>>

\* the write loop goes on to the next candidate name, or gives up
NextCandidate(d) ==
  IF d.k < Len(d.cands) THEN [d EXCEPT !.k = @ + 1, !.pc = "open"]
  ELSE Return(d, "fail")

\* the names NamedTemporaryFile draws from
TmpName(n) == [i \in 1..n |-> "t"]

\* NamedTemporaryFile: a name that no file has, here the first such
FreshTmp(files) ==
  LET used == {Len(f.name) : f \in {g \in files : g.ext = ""}}
  IN TmpName(CHOOSE n \in 1..(Cardinality(used) + 1) :
               n \notin used /\ \A m \in 1..(n - 1) : m \in used)

TmpFile(d, files) ==
  CHOOSE f \in files : f.dir = d.dir /\ f.name = d.tmp /\ f.ext = ""

\* _safe_join of the candidate and NamedTemporaryFile(dir=target_dir): the
\* file is made, or OSError with tmp_path None
DlOpen ==
  /\ dl.pc = "open"
  /\ \/ /\ dl.probed
        /\ fs' = fs \cup {[dir |-> dl.dir, name |-> FreshTmp(fs),
                           ext |-> "", size |-> 0]}
        /\ dl' = [dl EXCEPT !.tmp = FreshTmp(fs),
                            !.pc = "stream", !.wrote = TRUE]
     \/ /\ fs' = fs
        /\ dl' = NextCandidate(dl)
  /\ UNCHANGED <<ledger, dirs, lastOp, disc, others>>

\* add one chunk to the temporary file
WriteChunk(files, f) ==
  (files \ {f}) \cup {[f EXCEPT !.size = @ + 1]}

\* for chunk in response.iter_content(8192): tmp.write(chunk)
\*   - the stream was read to its end before: StreamConsumedError, which is
\*     a RequestException and so an OSError
\*   - a chunk is read and written
\*   - a chunk is read and tmp.write raises OSError
\*   - the connection breaks (a RequestException); the response is closed
\*     and yields nothing from then on
\*   - the stream ends: _content_consumed is set, tmp_path is assigned
\* An OSError inside the loop leaves tmp_path None, so the temporary file
\* stays where it is.
DlStream ==
  /\ dl.pc = "stream"
  /\ IF dl.consumed
     THEN fs' = fs /\ dl' = NextCandidate(dl)
     ELSE IF dl.pos < FullSize
     THEN \/ /\ fs' = WriteChunk(fs, TmpFile(dl, fs))
             /\ dl' = [dl EXCEPT !.pos = @ + 1]
          \/ /\ fs' = fs
             /\ dl' = NextCandidate([dl EXCEPT !.pos = @ + 1])
          \/ /\ fs' = fs
             /\ dl' = NextCandidate([dl EXCEPT !.pos = FullSize])
     ELSE fs' = fs /\ dl' = [dl EXCEPT !.consumed = TRUE, !.pc = "replace"]
  /\ UNCHANGED <<ledger, dirs, lastOp, disc, others>>

\* tmp_path.replace(write_path): the rename, or OSError and the unlink of
\* the temporary file
DlReplace ==
  /\ dl.pc = "replace"
  /\ LET t == TmpFile(dl, fs)
     IN \/ /\ fs' = WriteFiles(fs \ {t},
                      {[dir |-> dl.dir, name |-> dl.cands[dl.k],
                        ext |-> dl.ext, size |-> t.size]})
           /\ dl' = Return(dl, "ok")
        \/ /\ fs' = fs \ {t}
           /\ dl' = NextCandidate(dl)
  /\ UNCHANGED <<ledger, dirs, lastOp, disc, others>>

CompletedAny(d) == d.completed \cup {d.cur}

\* success_ids = [futures[f] for f in as_completed(futures) if f.result()]
Completed(d) ==
  IF d.result = "ok" THEN d.completed \cup {d.cur} ELSE d.completed

DlReturned ==
  /\ dl.pc = "returned"
  /\ dl' = [DlIdle EXCEPT
             !.pc = "next", !.runs = dl.runs,
             !.queue = dl.queue, !.nosource = dl.nosource,
             !.completed = Completed(dl)]
  /\ UNCHANGED <<ledger, fs, dirs, lastOp, disc, others>>

\* download_items after the last task: UPDATE ... SET saved = 1 for the
\* ids of success_ids, auto_parse off
DlCommit ==
  /\ dl.pc = "next"
  /\ dl.queue = <<>>
  /\ ledger' = MarkSaved(ledger, dl.completed)
  /\ dl' = [DlIdle EXCEPT !.last = "committed", !.runs = dl.runs,
                          !.completed = dl.completed,
                          !.nosource = dl.nosource]
  /\ UNCHANGED <<fs, dirs, lastOp, disc, others>>

\* a user interrupt ends the process wherever it is
DlInterrupt ==
  /\ dl.pc # "idle"
  /\ dl' = [DlIdle EXCEPT !.last = "killed", !.runs = dl.runs]
  /\ UNCHANGED <<ledger, fs, dirs, lastOp, disc, others>>

(***************************************************************************)
(* The session state: cookie_cache under COOKIE_LOCK.  A cookie set is the *)
(* number of the handshake that produced it, 0 the empty mapping.          *)
(***************************************************************************)
NumThreads == 2
MaxCalls == 2

Threads == 1..NumThreads

NoCookies == 0

\* cookie_cache = {}, COOKIE_LOCK free; gen counts the handshakes that
\* gave cookies, dead holds the cookie sets that clear_cookies removed,
\* hsEnd says how the last handshake ended
CkInit(avail) ==
  [cache |-> NoCookies, lock |-> 0, avail |-> avail, gen |-> 0, dead |-> {},
   hsEnd |-> "never"]

\* get_cookies up to the browser: with the lock, the cached copy if the
\* cache is not empty, {} if Playwright is missing, else the handshake
\* begins and the lock stays held
GetCookiesEnter(c, t) ==
  IF c.cache # NoCookies THEN [ck |-> c, ret |-> TRUE, got |-> c.cache]
  ELSE IF ~c.avail THEN [ck |-> c, ret |-> TRUE, got |-> NoCookies]
  ELSE [ck |-> [c EXCEPT !.lock = t], ret |-> FALSE, got |-> NoCookies]

\* how the try block of get_cookies ends:
\*   "cookies"  the cache is assigned the session cookies and a copy returned
\*   "none"     no cookie of the page has one of the two names: the cache
\*              is assigned {} and {} returned
\*   "raised"   launch, goto or cookies() raises: {} returned
\*   "closing"  browser.close() or the exit of sync_playwright raises after
\*              the cache was assigned: {} returned
HandshakeEnds == {"cookies", "none", "raised", "closing"}

GetCookiesLeave(c, out) ==
  LET new == out \in {"cookies", "closing"}
      assigned == IF new THEN c.gen + 1
                  ELSE IF out = "none" THEN NoCookies
                  ELSE c.cache
  IN [ck |-> [c EXCEPT !.lock = 0, !.cache = assigned, !.hsEnd = out,
                       !.gen = IF new THEN @ + 1 ELSE @],
      got |-> IF out = "cookies" THEN c.gen + 1 ELSE NoCookies]

\* a clear_cookies that leaves the cache as it is
ClearCookiesNoOp(c) == [c EXCEPT !.dead = @ \cup ({c.cache} \ {NoCookies})]

\* clear_cookies
ClearCookies(c) ==
  [c EXCEPT !.cache = NoCookies, !.dead = @ \cup ({c.cache} \ {NoCookies})]

\* a thread that calls get_cookies and clear_cookies: where it is, what
\* its last get_cookies returned, the calls it has made, the last one and
\* the handshakes it has begun
ThIdle ==
  [pc |-> "idle", got |-> NoCookies, calls |-> 0, last |-> "none", hs |-> 0]

ThGetCookies(t) ==
  /\ th[t].pc = "idle"
  /\ th[t].calls < MaxCalls
  /\ ck.lock = 0
  /\ LET e == GetCookiesEnter(ck, t)
     IN /\ ck' = e.ck
        /\ th' = [th EXCEPT ![t] =
                    IF e.ret
                    THEN [@ EXCEPT !.got = e.got, !.calls = @ + 1,
                                   !.last = "get"]
                    ELSE [@ EXCEPT !.pc = "handshake", !.hs = @ + 1]]
  /\ UNCHANGED <<store, crawl, rq, fm, fl, pr, ro, cli, gp, pd>>

ThHandshake(t) ==
  /\ th[t].pc = "handshake"
  /\ \E out \in HandshakeEnds :
       LET e == GetCookiesLeave(ck, out)
       IN /\ ck' = e.ck
          /\ th' = [th EXCEPT ![t] = [@ EXCEPT !.pc = "idle", !.got = e.got,
                                              !.calls = @ + 1,
                                              !.last = "get"]]
  /\ UNCHANGED <<store, crawl, rq, fm, fl, pr, ro, cli, gp, pd>>

ThClearCookies(t) ==
  /\ th[t].pc = "idle"
  /\ th[t].calls < MaxCalls
  /\ ck.lock = 0
  /\ ck' = ClearCookies(ck)
  /\ th' = [th EXCEPT ![t] = [@ EXCEPT !.calls = @ + 1, !.last = "clear"]]
  /\ UNCHANGED <<store, crawl, rq, fm, fl, pr, ro, cli, gp, pd>>

(***************************************************************************)
(* crawl_type: page 1 on the calling thread, the other pages on the pool,  *)
(* each through fetch_api and _fetch_api.  A page is fetched by the thread *)
(* of its number.                                                          *)
(***************************************************************************)
MaxTotal == 25

ApiPageSize == 10

FetchAttempts == 3

\* a page count that rounds down
PageCountFloor(total) == total \div ApiPageSize

\* page_count = (total_count + API_PAGE_SIZE - 1) // API_PAGE_SIZE
PageCount(total) == (total + ApiPageSize - 1) \div ApiPageSize

Pages == 1..PageCount(MaxTotal)

\* totalSizes of the remote category
Totals == {0, ApiPageSize, ApiPageSize + 1, MaxTotal}

\* first_page and last_page of crawl_type
FirstPage(start) == IF start > 0 THEN (IF start > 1 THEN start ELSE 1) ELSE 1

LastPage(end, count) ==
  IF end > 0 THEN (IF end < count THEN end ELSE count) ELSE count

\* page_queue = tuple(range(max(2, first_page), last_page + 1))
PageQueue(first, last) == {q \in Pages : q >= 2 /\ q >= first /\ q <= last}

\* result.data of a page: the ids of its items
PageData(q, total) ==
  LET n == IF total >= ApiPageSize * q THEN ApiPageSize
           ELSE IF total > ApiPageSize * (q - 1)
                THEN total - ApiPageSize * (q - 1)
           ELSE 0
  IN [k \in 1..n |-> ApiPageSize * (q - 1) + k]

\* a fetch_api call for one page: where it is, the attempt (0..2), whether
\* the last request had a Cookie header, the requests sent, the clears and
\* the cooldowns of fetch_api, the calls made for the page, its result, and
\* whether crawl_type has taken the result in
FetchIdle ==
  [pc |-> "off", attempt |-> 0, hdr |-> FALSE, posts |-> 0,
   clears |-> 0, cools |-> 0, calls |-> 0, res |-> "none", merged |-> FALSE]

CrawlIdle(total) ==
  [pc |-> "idle", total |-> total, count |-> 0, data |-> <<>>,
   w |-> [q \in Pages |-> FetchIdle], end |-> "none"]

\* how one _fetch_api call ends:
\*   "ok"       JSON with result or rows
\*   "antibot"  HTML with the script markers: error "Anti-bot detection"
\*   "error"    empty body, other HTML, or a connection error
\*   "errclear" JSON decode error or a 401/403 error: clear_cookies, error
\*   "raise"    an exception that _fetch_api does not catch
PostEnds == {"ok", "antibot", "error", "errclear", "raise"}

\* a fetch_api that gives up at the first anti-bot response
FetchApiStepNoRetry(f, out) ==
  CASE out = "ok" -> [f EXCEPT !.posts = @ + 1, !.pc = "done", !.res = "ok"]
    [] out = "antibot" ->
         [f EXCEPT !.posts = @ + 1, !.pc = "done", !.res = "blocked"]
    [] out = "error" ->
         [f EXCEPT !.posts = @ + 1, !.pc = "done", !.res = "error"]
    [] out = "errclear" -> [f EXCEPT !.posts = @ + 1, !.pc = "errclear"]
    [] OTHER -> [f EXCEPT !.posts = @ + 1, !.pc = "done", !.res = "raised"]

\* fetch_api after _fetch_api returned: the result unless it is an anti-bot
\* error; then clear and cooldown before attempts 2 and 3, and the
\* "max retries exceeded" error after the third
FetchApiStep(f, out) ==
  CASE out = "ok" -> [f EXCEPT !.posts = @ + 1, !.pc = "done", !.res = "ok"]
    [] out = "antibot" ->
         IF f.attempt < FetchAttempts - 1
         THEN [f EXCEPT !.posts = @ + 1, !.pc = "clear"]
         ELSE [f EXCEPT !.posts = @ + 1, !.pc = "done", !.res = "blocked"]
    [] out = "error" ->
         [f EXCEPT !.posts = @ + 1, !.pc = "done", !.res = "error"]
    [] out = "errclear" -> [f EXCEPT !.posts = @ + 1, !.pc = "errclear"]
    [] OTHER -> [f EXCEPT !.posts = @ + 1, !.pc = "done", !.res = "raised"]

\* the thread of crawl_type waits in as_completed and takes a result as
\* soon as there is one: no fetch is taken to move in between
NoneToCollect ==
  \A q \in Pages : crawl.w[q].pc = "done" => crawl.w[q].merged \/ q = 1

\* a _fetch_api that gives up when it has no cookies
FetchPostNeedsCookies(f, got, out) ==
  IF got = NoCookies THEN [f EXCEPT !.pc = "done", !.res = "error"]
  ELSE FetchApiStep([f EXCEPT !.hdr = TRUE], out)

\* _fetch_api: the POST, with the Cookie header if the cookies are not
\* empty, and what fetch_api makes of the answer
FetchPost(f, got, out) ==
  FetchApiStep([f EXCEPT !.hdr = (got # NoCookies)], out)

\* _fetch_api from get_cookies on: the cookies come from the cache, or are
\* {} without Playwright, and the POST follows; or the handshake begins
FetchCookies(q) ==
  /\ crawl.w[q].pc = "cookies"
  /\ NoneToCollect
  /\ ck.lock = 0
  /\ LET e == GetCookiesEnter(ck, q)
     IN /\ ck' = e.ck
        /\ IF e.ret
           THEN \E out \in PostEnds :
                  crawl' = [crawl EXCEPT !.w[q] = FetchPost(@, e.got, out)]
           ELSE crawl' = [crawl EXCEPT !.w[q].pc = "handshake"]
  /\ UNCHANGED <<store, th, rq, fm, fl, pr, ro, cli, gp, pd>>

\* _fetch_api from the end of the handshake on
FetchHandshake(q) ==
  /\ crawl.w[q].pc = "handshake"
  /\ NoneToCollect
  /\ \E hs \in HandshakeEnds, out \in PostEnds :
       LET e == GetCookiesLeave(ck, hs)
       IN /\ ck' = e.ck
          /\ crawl' = [crawl EXCEPT !.w[q] = FetchPost(@, e.got, out)]
  /\ UNCHANGED <<store, th, rq, fm, fl, pr, ro, cli, gp, pd>>

\* fetch_api: clear_cookies(), time.sleep(ANTI_BOT_DELAY * (attempt + 1)),
\* next attempt
FetchClear(q) ==
  /\ crawl.w[q].pc = "clear"
  /\ NoneToCollect
  /\ ck.lock = 0
  /\ ck' = ClearCookies(ck)
  /\ crawl' = [crawl EXCEPT !.w[q] =
                 [@ EXCEPT !.pc = "cookies", !.attempt = @ + 1,
                           !.clears = @ + 1, !.cools = @ + 1]]
  /\ UNCHANGED <<store, th, rq, fm, fl, pr, ro, cli, gp, pd>>

\* _fetch_api: clear_cookies() on a decode or an auth error, then the error
FetchErrClear(q) ==
  /\ crawl.w[q].pc = "errclear"
  /\ NoneToCollect
  /\ ck.lock = 0
  /\ ck' = ClearCookies(ck)
  /\ crawl' = [crawl EXCEPT !.w[q] = [@ EXCEPT !.pc = "done",
                                               !.res = "error"]]
  /\ UNCHANGED <<store, th, rq, fm, fl, pr, ro, cli, gp, pd>>

\* the rows of all_data go to the ledger: prepare_db_rows and executemany
CrawlRows(data) ==
  PrepareDbRows([k \in 1..Len(data) |-> CatalogItem(data[k])])

\* crawl_type(type_id, ..., start_page=-1, end_page=-1) up to fetch_api(1)
CrawlStart ==
  /\ crawl.pc = "idle"
  /\ crawl.end = "none"
  /\ crawl' = [crawl EXCEPT !.pc = "page1",
                            !.w[1] = [FetchIdle EXCEPT !.pc = "cookies",
                                                       !.calls = 1]]
  /\ UNCHANGED <<store, ck, th, rq, fm, fl, pr, ro, cli, gp, pd>>

\* crawl_type from the return of fetch_api(type_id, 1) to the submission of
\* the other pages, or to its end when there is none
CrawlPage1 ==
  /\ crawl.pc = "page1"
  /\ crawl.w[1].pc = "done"
  /\ LET count == PageCount(crawl.total)
         first == FirstPage(-1)
         last == LastPage(-1, count)
         queue == PageQueue(first, last)
         data == IF first = 1 THEN PageData(1, crawl.total) ELSE <<>>
         w1 == [crawl.w EXCEPT ![1].merged = TRUE]
     IN IF crawl.w[1].res # "ok"
        THEN /\ crawl' = [crawl EXCEPT !.pc = "idle", !.w = w1,
                            !.end = IF crawl.w[1].res = "raised"
                                    THEN "raised" ELSE "failed"]
             /\ ledger' = ledger
        ELSE IF crawl.total = 0
        THEN /\ crawl' = [crawl EXCEPT !.pc = "idle", !.w = w1,
                                       !.end = "noitems"]
             /\ ledger' = ledger
        ELSE IF queue = {}
        THEN /\ crawl' = [crawl EXCEPT !.pc = "idle", !.w = w1,
                                       !.count = count, !.data = data,
                                       !.end = "inserted"]
             /\ ledger' = InsertRows(ledger, PipelineType, CrawlRows(data))
        ELSE /\ crawl' = [crawl EXCEPT
                            !.pc = "fanout", !.count = count, !.data = data,
                            !.w = [q \in Pages |->
                                     IF q \in queue
                                     THEN [FetchIdle EXCEPT
                                             !.pc = "cookies",
                                             !.calls = w1[q].calls + 1]
                                     ELSE w1[q]]]
             /\ ledger' = ledger
  /\ UNCHANGED <<fs, dirs, lastOp, disc, dl, ck, th, rq, fm, fl, pr, ro, cli, gp, pd>>

\* an as_completed loop that gives up what it has when a page fails
CollectedOrNone(data, f, rows) ==
  IF f.res = "ok" THEN data \o rows ELSE <<>>

\* the body of the as_completed loop: all_data.extend(...) for a result
\* without error, a log line for an error result or an exception
Collected(data, f, rows) ==
  IF f.res = "ok" THEN data \o rows ELSE data

\* one turn of the as_completed loop, and after the last one the rest of
\* crawl_type: "No data", or prepare_db_rows and the INSERT OR REPLACE
CrawlCollect(q) ==
  /\ crawl.pc = "fanout"
  /\ crawl.w[q].pc = "done"
  /\ ~crawl.w[q].merged
  /\ LET data == Collected(crawl.data, crawl.w[q],
                           PageData(q, crawl.total))
         last == \A r \in Pages \ {q} :
                   crawl.w[r].pc = "off" \/ crawl.w[r].merged
     IN /\ crawl' = [crawl EXCEPT
                       !.data = data, !.w[q].merged = TRUE,
                       !.pc = IF last THEN "idle" ELSE "fanout",
                       !.end = IF ~last THEN "none"
                               ELSE IF data = <<>> THEN "nodata"
                               ELSE "inserted"]
        /\ ledger' = IF last
                     THEN InsertRows(ledger, PipelineType, CrawlRows(data))
                     ELSE ledger
  /\ UNCHANGED <<fs, dirs, lastOp, disc, dl, ck, th, rq, fm, fl, pr, ro, cli, gp, pd>>

(***************************************************************************)
(* request(): the loop around session.request and raise_for_status.        *)
(***************************************************************************)
HttpRetryMax == 6

\* how one turn of the loop ends:
\*   "ok"      a response that passes raise_for_status
\*   "status"  a 4xx response: raise_for_status raises HTTPError
\*   "retried" 429 or 5xx still after the Retry of the adapter has re-sent
\*             the request HTTP_RETRY_MAX times: HTTPError
\*   "exc"     session.request raises a RequestException
AttemptEnds == {"ok", "status", "retried", "exc"}

RqIdle == [pc |-> "idle", method |-> "none", log |-> <<>>, result |-> "none"]

\* a loop that ends without raising after the last failure
RequestStepFallThrough(r, out) ==
  LET log == Append(r.log, out)
  IN IF out = "ok"
     THEN [r EXCEPT !.log = log, !.pc = "returned", !.result = "response"]
     ELSE IF Len(log) = HttpRetryMax
     THEN [r EXCEPT !.log = log, !.pc = "returned", !.result = "None"]
     ELSE [r EXCEPT !.log = log]

\* one turn of the loop of request(): return the response, or raise
\* ConnectionError at the last attempt, or sleep and go on
RequestStep(r, out) ==
  LET log == Append(r.log, out)
  IN IF out = "ok"
     THEN [r EXCEPT !.log = log, !.pc = "returned", !.result = "response"]
     ELSE IF Len(log) = HttpRetryMax
     THEN [r EXCEPT !.log = log, !.pc = "raised",
                    !.result = "ConnectionError"]
     ELSE [r EXCEPT !.log = log]

RequestCall(m) ==
  /\ rq.pc = "idle"
  /\ rq' = [RqIdle EXCEPT !.pc = "loop", !.method = m]
  /\ UNCHANGED <<store, ck, th, crawl, fm, fl, pr, ro, cli, gp, pd>>

RequestAttempt ==
  /\ rq.pc = "loop"
  /\ \E out \in AttemptEnds : rq' = RequestStep(rq, out)
  /\ UNCHANGED <<store, ck, th, crawl, fm, fl, pr, ro, cli, gp, pd>>

(***************************************************************************)
(* Formatter.  Text is a sequence of symbols.  A description is written    *)
(* over " ", "(", ")", "d" (any other character) and "g" (the word 根据);  *)
(* a body line is one of the symbols of BodyLines.                         *)
(***************************************************************************)
MaxLines == 3
MaxFilterLines == 4
MaxFmtCalls == 3

\* "T" a title, "" the empty title
FmtTitles == {<<"T">>, <<>>}

FmtDescs ==
  {<<>>, <<" ">>, <<"d">>, <<"g">>, <<"(", ")">>, <<"(", "d", ")">>,
   <<"g", " ", " ", "d">>}

\* "x" plain text, " " a whitespace-only line, "toc" 目录, "ann" 公告,
\* "fashi" a line starting with 法释, "head1" 第一章 总则, "T" the title
BodyLines == {"x", " ", "toc", "ann", "fashi", "head1", "T"}

Bodies == UNION {[1..n -> BodyLines] : n \in 0..MaxLines}

FmtInputs ==
  [title : FmtTitles, description : FmtDescs, content : Bodies]

\* re.sub(r"[ 　]+", " ", s) and the two replace() of the brackets
RECURSIVE NormDesc(_)
NormDesc(s) ==
  IF s = <<>> THEN <<>>
  ELSE IF Len(s) >= 2 /\ s[1] = " " /\ s[2] = " " THEN NormDesc(Tail(s))
  ELSE <<CASE s[1] = "(" -> "L" [] s[1] = ")" -> "R" [] OTHER -> s[1]>>
       \o NormDesc(Tail(s))

\* _filter_desc: the lines of the information block
FilterDesc(description) ==
  LET c1 == StripSet(description, {" "})
      c2 == IF c1 # <<>> /\ c1[1] = "(" /\ c1[Len(c1)] = ")"
            THEN StripSet(SubSeq(c1, 2, Len(c1) - 1), {" "})
            ELSE c1
      c3 == StripSet(NormDesc(c2), {" "})
  IN IF c1 = <<>> \/ c3 = <<>> \/ c3 = <<"g">>
     THEN <<>>
     ELSE <<<<"- ", c3>>>>

\* the state of the loop of _filter_content before its first line
FilterStart ==
  [menu |-> FALSE, menuAt |-> -1, pattern |-> "", regex |-> FALSE,
   skip |-> FALSE, out |-> <<>>]

\* the lines of the first AnnWindow are looked at for the announcement
AnnWindow == 40

\* further lines: "head2" 第二章 附则, "art1" 第一条 ...
FilterLines == BodyLines \cup {"head2", "art1"}

\* the line matches one of INDENT_RE, all of them of the kind 章 here
IsHeading(line) == line \in {"head1", "head2"}

\* pattern_regex, the kind of the pattern line with its number made 一+
MatchesPatternRegex(line) == line = "head1"

\* LINE_START: 第一+章, 第一+条 and the like
MatchesLineStart(line) == line \in {"head1", "art1"}

LeavesMenuByRegexOnly(s, line) == s.regex /\ MatchesPatternRegex(line)

\* the test that ends the table of contents
LeavesMenu(s, line) ==
  \/ line = s.pattern
  \/ s.regex /\ MatchesPatternRegex(line)
  \/ ~s.regex /\ MatchesLineStart(line)

\* skip_content after a line that was looked at
SkipAfter(skip, line) == skip /\ line # "fashi"

\* one iteration of the loop of _filter_content on line i (from 0)
FilterLine(s, i, line) ==
  IF s.menuAt >= 0 /\ i = s.menuAt + 1
  THEN [s EXCEPT !.pattern = line, !.regex = IsHeading(line)]
  ELSE IF line = "toc"
  THEN [s EXCEPT !.menu = TRUE, !.menuAt = i]
  ELSE
    LET menu == s.menu /\ ~LeavesMenu(s, line)
        skip == s.skip \/ (i < AnnWindow /\ line = "ann")
    IN [s EXCEPT !.menu = menu,
                 !.skip = SkipAfter(skip, line),
                 !.out = IF ~menu /\ ~skip /\ line # " "
                         THEN Append(@, line) ELSE @]

RECURSIVE FilterFrom(_, _, _)
FilterFrom(s, i, content) ==
  IF i >= Len(content) THEN s.out
  ELSE FilterFrom(FilterLine(s, i, content[i + 1]), i + 1, content)

\* _filter_content
FilterContent(content) == FilterFrom(FilterStart, 0, content)

\* the loop of _filter_content before line off + i; the off lines before
\* the modelled ones are plain text
FlIdle(content, off) ==
  [content |-> content, off |-> off, i |-> 0, s |-> FilterStart,
   line |-> ""]

\* for i, current_line in enumerate(content)
FilterNext ==
  /\ fl.i < Len(fl.content)
  /\ fl' = [fl EXCEPT
       !.i = @ + 1,
       !.line = fl.content[fl.i + 1],
       !.s = FilterLine(fl.s, fl.off + fl.i, fl.content[fl.i + 1])]
  /\ UNCHANGED <<store, ck, th, crawl, rq, fm, pr, ro, cli, gp, pd>>

\* _process_line with the heading_map built by format_markdown
ProcessLine(line) ==
  IF line = "head1" THEN <<"#### ", line>> ELSE <<"", line>>

\* the lines format_markdown builds from its three arguments
FormatLines(title, description, content) ==
  LET fc == FilterContent(content)
      fd == FilterDesc(description)
      processed == SelectSeq(fc, LAMBDA l : <<l>> # title)
      final == <<<<"# ", title>>>> \o fd \o <<"<!-- INFO END -->">>
               \o [k \in 1..Len(processed) |-> ProcessLine(processed[k])]
  IN IF fc = <<>> /\ fd = <<>> THEN <<>>
     ELSE IF Len(final) < 2
     THEN <<<<"# ", title>>, "<!-- INFO END -->">>
     ELSE final

FormatMarkdownCounting(self, title, description, content) ==
  IF Len(self.log) >= 2 THEN <<>> ELSE FormatLines(title, description, content)

\* format_markdown(self, title, description, content)
FormatMarkdown(self, title, description, content) ==
  FormatLines(title, description, content)

\* two documents formatted between the calls on the watched one
OtherDocs ==
  {[title |-> <<"T">>, description |-> <<"d">>, content |-> <<"x">>],
   [title |-> <<>>, description |-> <<>>, content |-> <<"ann", "x">>]}

\* FORMATTER before any call; arg is the document the calls are watched on,
\* outs the results it has had, last the result of the latest call, log
\* which calls were on the watched document
FmIdle(arg) == [arg |-> arg, outs |-> {}, last |-> <<>>, log |-> <<>>]

FormatCall(doc) ==
  /\ Len(fm.log) < MaxFmtCalls
  /\ LET out == FormatMarkdown(fm, doc.title, doc.description, doc.content)
     IN fm' = [fm EXCEPT
          !.outs = IF doc = fm.arg THEN @ \cup {out} ELSE @,
          !.last = out,
          !.log = Append(@, doc = fm.arg)]
  /\ UNCHANGED <<store, ck, th, crawl, rq, fl, pr, ro, cli, gp, pd>>

\* FORMATTER.format_markdown on the watched document
FormatAgain == FormatCall(fm.arg)

\* FORMATTER.format_markdown on another document
FormatOther == \E doc \in OtherDocs \ {fm.arg} : FormatCall(doc)

(***************************************************************************)
(* reorg_files_by_type on a category whose rows have the titles of ids 1   *)
(* and 2; sub is the folder get_path gives a row, "" the category root.    *)
(***************************************************************************)
MaxFiles == 3

DirSub == "sub"

\* the files that can lie under the category root and in the subfolder
RootFiles ==
  [dir : {DirName}, name : {<<"x", "_">>, <<"x">>, <<"y">>},
   ext : {"docx", ""}, size : {FullSize}]

SubFiles ==
  [dir : {DirSub}, name : {<<"x", "_">>, <<"x">>}, ext : {"docx"},
   size : {1}]

ReorgRows ==
  {L \in SUBSET [table : {PipelineType}, id : {1, 2}, saved : {0, 1},
                 sub : {"", DirSub}] :
     \A r1, r2 \in L : r1.id = r2.id => r1 = r2}

\* SELECT ... WHERE saved = 1 AND title IS NOT NULL, in rowid order
SavedRows(L) ==
  LET S == {r \in RowsOf(L, PipelineType) : r.saved = 1}
  IN [k \in 1..Cardinality(S) |->
        CHOOSE r \in S : Cardinality({q \in S : q.id < r.id}) = k - 1]

\* file_map: the keys a row is filed under
FileKeys(r) ==
  {SanitizeTitle(RemoteTitle(r.id)), AsciiTitle(RemoteTitle(r.id))} \ {<<>>}

\* file_map.get(stem): the last row filed under the stem, the row of NoId
\* when none is
FileMapGet(rows, stem) ==
  LET ks == {k \in 1..Len(rows) : stem \in FileKeys(rows[k])}
  IN IF ks = {}
     THEN [table |-> PipelineType, id |-> NoId, saved |-> 0, sub |-> ""]
     ELSE rows[CHOOSE k \in ks : \A j \in ks : j <= k]

\* get_path: the category root or the subfolder of the row's classification
GetPath(r) == IF r.sub = "" THEN DirName ELSE r.sub

RoIdle ==
  [pc |-> "idle", rows |-> <<>>, todo |-> {}, start |-> {}, moved |-> {},
   skipped |-> {}, failed |-> {}, nodir |-> {}]

\* up to the glob: main_dir.is_dir(), the SELECT, file_map
ReorgStart ==
  /\ ro.pc = "idle"
  /\ ro' = IF DirName \notin dirs \/ SavedRows(ledger) = <<>>
           THEN [ro EXCEPT !.pc = "done", !.start = fs]
           ELSE [ro EXCEPT !.pc = "loop", !.rows = SavedRows(ledger),
                           !.start = fs,
                           !.todo = {f \in fs : f.dir = DirName /\ f.ext # ""}]
  /\ UNCHANGED <<store, ck, th, crawl, rq, fm, fl, pr, cli, gp, pd>>

TargetExistsUnchecked(files, f, target) == FALSE

\* target_path.exists()
TargetExists(files, f, target) ==
  \E g \in files : g.dir = target /\ g.name = f.name /\ g.ext = f.ext

\* file_path.rename(target_path): a file of that name at the target is
\* replaced
Rename(files, f, target) ==
  {g \in files : g # f /\ ~(g.dir = target /\ g.name = f.name /\ g.ext = f.ext)}
    \cup {[f EXCEPT !.dir = target]}

\* one turn of the loop over the files, with the ways mkdir and rename end
ReorgFile ==
  /\ ro.pc = "loop"
  /\ \E f \in ro.todo, mkdirOk \in BOOLEAN, renameOk \in BOOLEAN :
       LET r == FileMapGet(ro.rows, f.name)
           target == GetPath(r)
           rest == ro.todo \ {f}
           next == [ro EXCEPT !.todo = rest,
                              !.pc = IF rest = {} THEN "done" ELSE "loop"]
           dirOk == target \notin ro.nodir /\ (target \in dirs \/ mkdirOk)
       IN IF r.id = NoId
          THEN /\ ro' = [next EXCEPT !.skipped = @ \cup {f}]
               /\ UNCHANGED <<fs, dirs>>
          ELSE IF ~dirOk
          THEN /\ ro' = [next EXCEPT !.failed = @ \cup {f},
                                     !.nodir = @ \cup {target}]
               /\ UNCHANGED <<fs, dirs>>
          ELSE IF TargetExists(fs, f, target)
          THEN /\ ro' = [next EXCEPT !.skipped = @ \cup {f}]
               /\ dirs' = dirs \cup {target}
               /\ UNCHANGED fs
          ELSE IF renameOk
          THEN /\ ro' = [next EXCEPT !.moved = @ \cup {f}]
               /\ fs' = Rename(fs, f, target)
               /\ dirs' = dirs \cup {target}
          ELSE /\ ro' = [next EXCEPT !.failed = @ \cup {f}]
               /\ dirs' = dirs \cup {target}
               /\ UNCHANGED fs
  /\ UNCHANGED <<ledger, lastOp, disc, dl, ck, th, crawl, rq, fm, fl, pr, cli, gp, pd>>

(***************************************************************************)
(* HTML.parse and Word.parse.  A file is "good", "notutf8" (read_text      *)
(* raises UnicodeDecodeError), "unreadable" (OSError) or "malformed" (the  *)
(* library raises while parsing).  frames counts the nested calls of       *)
(* HTML.parse; a call or a log made with no room left on the stack raises  *)
(* RecursionError.                                                         *)
(***************************************************************************)
MaxDocs == 2
RecursionLimit == 3

\* the frames logger.exception needs below the one that logs
LogFrames == 1

ParserKinds == {"HTML", "WORD"}

FileKinds == {"good", "notutf8", "unreadable", "malformed"}

ParseDocsIn == [kind : ParserKinds, file : FileKinds]

PrIdle(queue) ==
  [queue |-> queue, results |-> <<>>, pc |-> "idle", frames |-> 0,
   pending |-> "none", reads |-> 0]

HandlerRaises(p) == [p EXCEPT !.pc = "unwind", !.pending = "exc"]

\* except Exception: logger.exception(...); return "", "", []
Handler(p) ==
  [p EXCEPT !.pc = "unwind",
            !.pending = IF RecursionLimit - p.frames < LogFrames
                        THEN "exc" ELSE "empty"]

\* the try block of one frame of HTML.parse
HtmlTry(p) ==
  LET file == Head(p.queue).file
      q == [p EXCEPT !.reads = @ + 1]
  IN CASE file = "good" -> [q EXCEPT !.pc = "unwind", !.pending = "extracted"]
       [] file = "notutf8" ->
            IF p.frames < RecursionLimit
            THEN [q EXCEPT !.frames = @ + 1]
            ELSE Handler(q)
       [] OTHER -> Handler(q)

\* Word.parse
WordTry(p) ==
  IF Head(p.queue).file = "good"
  THEN [p EXCEPT !.pc = "unwind", !.pending = "extracted", !.reads = @ + 1]
  ELSE Handler([p EXCEPT !.reads = @ + 1])

\* what leaves the innermost frame reaches the frame below, or the caller
Unwind(p) ==
  IF p.frames = 1
  THEN [p EXCEPT !.pc = "idle", !.frames = 0, !.pending = "none",
                 !.reads = 0,
                 !.queue = Tail(@),
                 !.results = Append(@, [out |-> p.pending, reads |-> p.reads])]
  ELSE IF p.pending = "exc"
  THEN Handler([p EXCEPT !.frames = @ - 1])
  ELSE [p EXCEPT !.frames = @ - 1]

\* parse_doc: parser.parse(local_path, legal_title)
ParseCall ==
  /\ pr.pc = "idle"
  /\ pr.queue # <<>>
  /\ pr' = [pr EXCEPT !.pc = "try", !.frames = 1]
  /\ UNCHANGED <<store, ck, th, crawl, rq, fm, fl, ro, cli, gp, pd>>

HtmlParse ==
  /\ pr.pc = "try"
  /\ Head(pr.queue).kind = "HTML"
  /\ pr' = HtmlTry(pr)
  /\ UNCHANGED <<store, ck, th, crawl, rq, fm, fl, ro, cli, gp, pd>>

WordParse ==
  /\ pr.pc = "try"
  /\ Head(pr.queue).kind = "WORD"
  /\ pr' = WordTry(pr)
  /\ UNCHANGED <<store, ck, th, crawl, rq, fm, fl, ro, cli, gp, pd>>

ParseReturn ==
  /\ pr.pc = "unwind"
  /\ pr' = Unwind(pr)
  /\ UNCHANGED <<store, ck, th, crawl, rq, fm, fl, ro, cli, gp, pd>>

(***************************************************************************)
(* The command line (__main__): which functions one run calls, and on the  *)
(* tables of which categories each of them works.                          *)
(***************************************************************************)
CliArgs ==
  [type : {0, PipelineType}, reorganize : BOOLEAN, update_schema : BOOLEAN,
   sync : BOOLEAN, check : BOOLEAN, download : BOOLEAN, parse : BOOLEAN,
   refresh_cookies : BOOLEAN, reset_state : {"none", "missing", "all"}]

CliIdle(args) == [args |-> args, pc |-> "start", log |-> <<>>, ec |-> 0]

Call(f, tables) == [f |-> f, tables |-> tables]

\* the categories a function that takes type_id = 0 as "all" works on
AllOr(t) == IF t = 0 THEN TypeIds ELSE {t} \cap TypeIds

\* download_docs: get_type_code(0) is "" and the call returns
DownloadTables(t) == {t} \cap TypeIds

\* initialize_database and --refresh-cookies
MainStart ==
  /\ cli.pc = "start"
  /\ cli' = [cli EXCEPT
       !.pc = "maintenance",
       !.log = <<Call("initialize_database", {})>>
               \o IF cli.args.refresh_cookies
                  THEN <<Call("clear_cookies", {}), Call("get_cookies", {})>>
                  ELSE <<>>]
  /\ UNCHANGED <<store, ck, th, crawl, rq, fm, fl, pr, ro, gp, pd>>

\* the loop over _mode_map: the first of the three that was asked for
MainMaintenance ==
  /\ cli.pc = "maintenance"
  /\ cli' = [cli EXCEPT
       !.pc = "mode",
       !.log = @ \o
         (CASE cli.args.reorganize -> <<Call("reorg_files", TypeIds)>>
            [] cli.args.update_schema -> <<Call("update_schema", {})>>
            [] cli.args.sync -> <<Call("sync_db", TypeIds)>>
            [] OTHER -> <<>>)]
  /\ UNCHANGED <<store, ck, th, crawl, rq, fm, fl, pr, ro, gp, pd>>

\* the if / elif chain after the loop: the calls it makes
MainMode(a) ==
  CASE a.reset_state # "none" -> <<Call("TypeError", {})>>
    [] a.check ->
         <<Call("process_items", TypeIds),
           Call("process_existing_items", AllOr(a.type)),
           Call("process_existing_items", AllOr(a.type)),
           Call("reorg_files", TypeIds)>>
    [] a.download /\ ~a.parse ->
         <<Call("download_docs", DownloadTables(a.type))>>
    [] ~a.download /\ a.parse -> <<Call("parse_docs", AllOr(a.type))>>
    [] a.download /\ a.parse ->
         <<Call("download_docs", DownloadTables(a.type))>>
    [] OTHER -> <<Call("crawl_type", AllOr(a.type))>>

\* the chain, and sys.exit(_ec)
MainRun ==
  /\ cli.pc = "mode"
  /\ cli' = [cli EXCEPT
       !.pc = "done",
       !.log = @ \o MainMode(cli.args),
       !.ec = IF cli.args.reset_state # "none" THEN 1 ELSE 0]
  /\ UNCHANGED <<store, ck, th, crawl, rq, fm, fl, pr, ro, gp, pd>>

\* a run without arguments
NoArgs ==
  [type |-> 0, reorganize |-> FALSE, update_schema |-> FALSE, sync |-> FALSE,
   check |-> FALSE, download |-> FALSE, parse |-> FALSE,
   refresh_cookies |-> FALSE, reset_state |-> "none"]

(***************************************************************************)
(* The Path Classifier on text: extract_region_from_office,                *)
(* _sanitize_folder_name, _match_api_type_to_flfg and get_path.            *)
(***************************************************************************)
\* one character stands for each word the classifier looks for:
\* 人民代表大会, 常务委员会 and 地方
Congress == "R"

Standing == "S"

Local == "L"

MaxOffice == 3

MaxApiType == 2

Range(s) == {s[k] : k \in 1..Len(s)}

EndsWith(s, t) ==
  Len(t) <= Len(s) /\ SubSeq(s, Len(s) - Len(t) + 1, Len(s)) = t

\* t in s
IsInfix(t, s) ==
  \E k \in 0..(Len(s) - Len(t)) : SubSeq(s, k + 1, k + Len(t)) = t

\* s.split("_", 1)[1] for a text that holds "_"
AfterFirst(s) ==
  LET k == CHOOSE j \in 1..Len(s) :
             s[j] = "_" /\ \A i \in 1..(j - 1) : s[i] # "_"
  IN SubSeq(s, k + 1, Len(s))

\* s.split("_")[-1]
LastSegment(s) ==
  IF "_" \notin Range(s) THEN s
  ELSE LET k == CHOOSE j \in 1..Len(s) :
                  s[j] = "_" /\ \A i \in (j + 1)..Len(s) : s[i] # "_"
       IN SubSeq(s, k + 1, Len(s))

\* get_type_name: 宪法 for category 1, 地方性法规 for category 6
TypeName(t) == IF t = 6 THEN <<"d">> ELSE <<"c">>

NoFlfg == 0

\* LAW_CLASS_CODE_INDEX in its order, three of its entries: 宪法 (the name
\* of a category), 法律_宪法相关法, 地方法规_地方性法规 (a local folder that
\* ends with the name of category 6)
LawClassCodeIndex ==
  <<[name |-> <<"c">>, code |-> 100],
    [name |-> <<"f", "_", "r">>, code |-> 110],
    [name |-> <<Local, "_", "d">>, code |-> 230]>>

\* LAW_CLASS_REVERSE_INDEX.get(flfg_code_id, "")
ResolveFlfgFolder(code) ==
  IF \E k \in 1..Len(LawClassCodeIndex) : LawClassCodeIndex[k].code = code
  THEN LawClassCodeIndex[CHOOSE k \in 1..Len(LawClassCodeIndex) :
                           LawClassCodeIndex[k].code = code].name
  ELSE <<>>

\* the test _match_api_type_to_flfg makes on one folder name; no character
\* of the texts here has another lower case
ApiTypeMatches(api, name) ==
  \/ IsInfix(api, name)
  \/ EndsWith(name, api)
  \/ EndsWith(api, LastSegment(name))

\* _match_api_type_to_flfg: the first folder name that matches, else the
\* type string itself
MatchApiTypeToFlfg(api) ==
  IF api = <<>> THEN <<>>
  ELSE IF \E k \in 1..Len(LawClassCodeIndex) :
            ApiTypeMatches(api, LawClassCodeIndex[k].name)
  THEN LawClassCodeIndex[CHOOSE k \in 1..Len(LawClassCodeIndex) :
         /\ ApiTypeMatches(api, LawClassCodeIndex[k].name)
         /\ \A j \in 1..(k - 1) :
              ~ApiTypeMatches(api, LawClassCodeIndex[j].name)].name
  ELSE api

\* PATH_SANITIZER.sub("_", name.strip()) if name else ""
SanitizeFolderName(name) ==
  LET s == StripSet(name, {" "})
  IN [i \in 1..Len(s) |-> IF s[i] \in PathChars THEN "_" ELSE s[i]]

\* extract_region_from_office: the text before the first 人民代表大会,
\* stripped, without a closing 常务委员会; <<>> is None
ExtractRegionFromOffice(office) ==
  IF Congress \notin Range(office) THEN <<>>
  ELSE LET k == CHOOSE j \in 1..Len(office) :
                  office[j] = Congress
                    /\ \A i \in 1..(j - 1) : office[i] # Congress
           r == StripSet(SubSeq(office, 1, k - 1), {" "})
       IN IF r # <<>> /\ r[Len(r)] = Standing
          THEN SubSeq(r, 1, Len(r) - 1)
          ELSE r

\* the region get_path appends below target_dir
RegionPart(office) == <<ExtractRegionFromOffice(office)>>

\* get_path below base_dir for a folder name: the components it appends
ClassifiedParts(folder, t, office, local_only) ==
  LET type_name == TypeName(t)
      sub_folder ==
        IF EndsWith(folder, <<"_">> \o type_name) \/ folder = type_name
        THEN (IF "_" \in Range(folder) THEN AfterFirst(folder) ELSE <<>>)
        ELSE folder
      sanitized == SanitizeFolderName(sub_folder)
      target_dir == IF sanitized = <<>> \/ sanitized = type_name
                    THEN <<>> ELSE <<sanitized>>
  IN IF /\ t = 6
        /\ office # <<>>
        /\ (local_only => Local \in Range(folder))
        /\ ExtractRegionFromOffice(office) # <<>>
     THEN target_dir \o RegionPart(office)
     ELSE target_dir

\* get_path: the components appended to BASE_DIR / get_type_name(t)
GetPathParts(api_type, t, flfg_code_id, office) ==
  IF flfg_code_id # NoFlfg /\ ResolveFlfgFolder(flfg_code_id) # <<>>
  THEN ClassifiedParts(ResolveFlfgFolder(flfg_code_id), t, office, TRUE)
  ELSE IF api_type # <<>>
  THEN ClassifiedParts(MatchApiTypeToFlfg(api_type), t, office, FALSE)
  ELSE <<>>

\* determine_dir for a category other than 7..10, as the components below
\* BASE_DIR / type name, when the tree holds the directory get_path chose
\* (parts) and what lies above it: the region folder
\* target / region_match.group(1).strip() when it exists, else the category
\* root; for an office text without "/"
DetermineDirParts(t, office, parts) ==
  IF t = 6 /\ office # <<>> /\ Congress \in Range(office)
  THEN LET k == CHOOSE j \in 1..Len(office) :
                  office[j] = Congress
                    /\ \A i \in 1..(j - 1) : office[i] # Congress
           region == StripSet(SubSeq(office, 1, k - 1), {" "})
       IN IF region # <<>> /\ parts # <<>> /\ parts[1] = region
          THEN <<region>>
          ELSE <<>>
  ELSE <<>>

\* sync_table on a row whose markdown lies in the directory get_path chose:
\* target_state
SyncTargetIn(t, office, parts) ==
  IF DetermineDirParts(t, office, parts) = parts THEN 1 ELSE 0

GpIdle ==
  [pc |-> "idle", api_type |-> <<>>, main_type_id |-> 0,
   flfg_code_id |-> NoFlfg, office |-> <<>>, parts |-> <<>>]

GpCall(a, t, c, o) ==
  [GpIdle EXCEPT !.pc = "call", !.api_type = a, !.main_type_id = t,
                 !.flfg_code_id = c, !.office = o]

\* one call of get_path returns
GetPathReturn ==
  /\ gp.pc = "call"
  /\ gp' = [gp EXCEPT !.pc = "done",
                      !.parts = GetPathParts(gp.api_type, gp.main_type_id,
                                             gp.flfg_code_id, gp.office)]
  /\ UNCHANGED <<store, ck, th, crawl, rq, fm, fl, pr, ro, cli, pd>>

(***************************************************************************)
(* parse_doc step by step, with what the markdown files at its output      *)
(* paths hold, and the UPDATE of the batch that called it.                 *)
(***************************************************************************)
\* parent_dir / clean_title.md, parent_dir / legal_id.md and
\* parent_dir / payload_digest.md
MdPaths == {"title", "id", "digest"}

\* what a path holds: no file, the formatted content of this document, or
\* anything else
MdContents == {"none", "payload", "other"}

\* output_path: f"{clean_title or legal_id}.md"
OutputPath(clean_empty) == IF clean_empty THEN "id" ELSE "title"

\* output_path, then the fallback candidates other than output_path
PersistOrder(clean_empty) ==
  IF clean_empty THEN <<"id", "digest">> ELSE <<"title", "id", "digest">>

\* a test that takes any file at the path for the current one
IsPresent(md, path) == md[path] # "none"

\* output_path.exists() and _hash_file(output_path) == payload_digest
IsCurrent(md, path) == md[path] = "payload"

PdIdle ==
  [pc |-> "idle", clean_empty |-> FALSE, md |-> [q \in MdPaths |-> "none"],
   todo |-> <<>>, result |-> "none", wrote |-> "none"]

PdStart(clean_empty, md) ==
  [PdIdle EXCEPT !.pc = "find", !.clean_empty = clean_empty, !.md = md]

PdReturn(d, res) == [d EXCEPT !.pc = "returned", !.result = res]

\* find_doc, the parser and the formatter: the source is missing, has no
\* parser, gives an empty payload or no line, or the parser raises; or the
\* payload is there
PdFormat ==
  /\ pd.pc = "find"
  /\ \/ pd' = PdReturn(pd, "none")
     \/ pd' = PdReturn(pd, "raised")
     \/ pd' = [pd EXCEPT !.pc = "check"]
  /\ UNCHANGED <<store, ck, th, crawl, rq, fm, fl, pr, ro, cli, gp>>

\* the file at output_path is the current one: return legal_id
PdCheck ==
  /\ pd.pc = "check"
  /\ pd' = IF IsCurrent(pd.md, OutputPath(pd.clean_empty))
           THEN PdReturn(pd, "ok")
           ELSE [pd EXCEPT !.pc = "persist",
                           !.todo = PersistOrder(pd.clean_empty)]
  /\ UNCHANGED <<store, ck, th, crawl, rq, fm, fl, pr, ro, cli, gp>>

\* _persist_payload on the next path: _atomic_write_bytes writes a
\* temporary file and renames it onto the path, or raises OSError and the
\* path keeps what it held; after the last path parse_doc returns None
PdPersist ==
  /\ pd.pc = "persist"
  /\ \/ pd' = PdReturn([pd EXCEPT !.md[Head(pd.todo)] = "payload",
                                  !.wrote = Head(pd.todo)], "ok")
     \/ pd' = IF Len(pd.todo) > 1 THEN [pd EXCEPT !.todo = Tail(@)]
              ELSE PdReturn(pd, "none")
  /\ UNCHANGED <<store, ck, th, crawl, rq, fm, fl, pr, ro, cli, gp>>

\* parse_docs and parse_items after the call: an exception of the call
\* counts as a failure, UPDATE ... SET parsed = 1 for the successes, or
\* sqlite3.Error and no row changes
PdMark ==
  /\ pd.pc = "returned"
  /\ pd' = [pd EXCEPT !.pc = "done"]
  /\ \/ ledger' = {[r EXCEPT !.parsed = IF pd.result = "ok" THEN 1 ELSE @] :
                   r \in ledger}
     \/ ledger' = ledger
  /\ UNCHANGED <<fs, dirs, lastOp, disc, dl, ck, th, crawl, rq, fm, fl, pr, ro,
                 cli, gp>>

\* no parser, no command line, no get_path and no parse_doc call is running
RestIdle ==
  /\ fl = FlIdle(<<>>, 0)
  /\ pr = PrIdle(<<>>)
  /\ ro = RoIdle
  /\ cli = CliIdle(NoArgs)
  /\ gp = GpIdle
  /\ pd = PdIdle

\* the document the pipeline's formatter is idle on
OneDoc == [title |-> <<"T">>, description |-> <<>>, content |-> <<>>]

\* nothing of the session, request() or the formatter is running
OthersIdle ==
  /\ ck = CkInit(TRUE)
  /\ th = [t \in Threads |-> ThIdle]
  /\ crawl = CrawlIdle(0)
  /\ rq = RqIdle
  /\ fm = FmIdle(OneDoc)
  /\ RestIdle

(***************************************************************************)
(* The pipeline: the ledger, the tree and the operations run one after     *)
(* the other.                                                              *)
(***************************************************************************)
Init ==
  /\ ledger = {}
  /\ fs = {}
  /\ dirs = {}
  /\ lastOp = Op("none", 0, {}, 1)
  /\ disc = DiscIdle(<<>>, 0, TRUE, 0)
  /\ dl = DlIdle
  /\ OthersIdle

Next ==
  \/ \E S \in SUBSET Ids \ {{}} : CrawlInsert(S)
  \/ \E ap \in BOOLEAN : DownloadDocs(ap)
  \/ \E de \in BOOLEAN : ProcessExistingItems(de, TRUE)
  \/ ParseItems(Ids)
  \/ ParseDocs
  \/ SyncDb
  \/ \E c \in ResetCalls : ResetStateFlags(c[1], c[2], c[3])
  \/ \E f \in fs : UserRemoveFile(f)
  \/ \E d \in dirs : UserRemoveDir(d)

Spec == Init /\ [][Next]_vars

(***************************************************************************)
(* Discovery runs against a remote listing that stays as it is.            *)
(***************************************************************************)
InitDiscovery ==
  /\ ledger = {}
  /\ fs = {}
  /\ dirs = {}
  /\ lastOp = Op("none", 0, {}, 1)
  /\ disc \in {DiscIdle(rem, f, c, 0) :
                 rem \in Listings, f \in FailPages, c \in BOOLEAN}
  /\ dl = DlIdle
  /\ OthersIdle

NextDiscovery ==
  \/ DiscStart
  \/ DiscPage
  \/ DiscInsert

SpecDiscovery == InitDiscovery /\ [][NextDiscovery]_vars

\* the same runs, with the loop of _paginate always taking its next turn:
\* the loop is sequential code and each turn is one bounded request
MaxListing == 3

InitPaginate ==
  /\ ledger = {}
  /\ fs = {}
  /\ dirs = {}
  /\ lastOp = Op("none", 0, {}, 1)
  /\ disc \in {DiscIdle(rem, f, c, 0) :
                 rem \in UNION {[1..n -> DiscItems] : n \in 0..MaxListing},
                 f \in FailPages, c \in BOOLEAN}
  /\ dl = DlIdle
  /\ OthersIdle

SpecPaginate ==
  InitPaginate /\ [][NextDiscovery]_vars /\ WF_vars(DiscPage)

(***************************************************************************)
(* Download batches over a ledger of two pending rows, one of them with an *)
(* id that climbs out of the directory, on an empty tree.                  *)
(***************************************************************************)
PendingRow(i, title) ==
  [table |-> PipelineType, id |-> i, title |-> title,
   saved |-> 0, parsed |-> 0, bbbs_id |-> NoId]

InitDownload ==
  /\ ledger = {PendingRow(1, <<"x", "/">>), PendingRow(5, <<"y">>)}
  /\ fs = {}
  /\ dirs = {}
  /\ lastOp = Op("none", 0, {}, 1)
  /\ disc = DiscIdle(<<>>, 0, TRUE, 0)
  /\ dl = DlIdle
  /\ OthersIdle

NextDownload ==
  \/ DlDocs
  \/ DlBatchStart
  \/ DlNextTask
  \/ DlFetchUrl
  \/ DlProbe
  \/ DlVerify
  \/ DlGet
  \/ DlOpen
  \/ DlStream
  \/ DlReplace
  \/ DlReturned
  \/ DlCommit
  \/ DlInterrupt

SpecDownload == InitDownload /\ [][NextDownload]_vars

(***************************************************************************)
(* Threads that get and clear the cookies, with and without Playwright.    *)
(***************************************************************************)
InitCookies ==
  /\ ledger = {}
  /\ fs = {}
  /\ dirs = {}
  /\ lastOp = Op("none", 0, {}, 1)
  /\ disc = DiscIdle(<<>>, 0, TRUE, 0)
  /\ dl = DlIdle
  /\ ck \in {CkInit(a) : a \in BOOLEAN}
  /\ th = [t \in Threads |-> ThIdle]
  /\ crawl = CrawlIdle(0)
  /\ rq = RqIdle
  /\ fm = FmIdle(OneDoc)
  /\ RestIdle

NextCookies ==
  \/ \E t \in Threads : ThGetCookies(t)
  \/ \E t \in Threads : ThHandshake(t)
  \/ \E t \in Threads : ThClearCookies(t)

SpecCookies == InitCookies /\ [][NextCookies]_vars

(***************************************************************************)
(* One crawl of a category whose remote listing has any of the totals.     *)
(***************************************************************************)
InitCrawl ==
  /\ ledger = {}
  /\ fs = {}
  /\ dirs = {}
  /\ lastOp = Op("none", 0, {}, 1)
  /\ disc = DiscIdle(<<>>, 0, TRUE, 0)
  /\ dl = DlIdle
  /\ ck \in {CkInit(a) : a \in BOOLEAN}
  /\ th = [t \in Threads |-> ThIdle]
  /\ crawl \in {CrawlIdle(t) : t \in Totals}
  /\ rq = RqIdle
  /\ fm = FmIdle(OneDoc)
  /\ RestIdle

NextCrawl ==
  \/ CrawlStart
  \/ \E q \in Pages : FetchCookies(q)
  \/ \E q \in Pages : FetchHandshake(q)
  \/ \E q \in Pages : FetchClear(q)
  \/ \E q \in Pages : FetchErrClear(q)
  \/ CrawlPage1
  \/ \E q \in Pages : CrawlCollect(q)

SpecCrawl == InitCrawl /\ [][NextCrawl]_vars

(***************************************************************************)
(* One call of request().                                                  *)
(***************************************************************************)
InitRequest ==
  /\ ledger = {}
  /\ fs = {}
  /\ dirs = {}
  /\ lastOp = Op("none", 0, {}, 1)
  /\ disc = DiscIdle(<<>>, 0, TRUE, 0)
  /\ dl = DlIdle
  /\ OthersIdle

NextRequest ==
  \/ \E m \in {"GET", "POST"} : RequestCall(m)
  \/ RequestAttempt

SpecRequest == InitRequest /\ [][NextRequest]_vars

(***************************************************************************)
(* Calls of FORMATTER.format_markdown on any document, with calls on other *)
(* documents in between.                                                   *)
(***************************************************************************)
InitFormat ==
  /\ ledger = {}
  /\ fs = {}
  /\ dirs = {}
  /\ lastOp = Op("none", 0, {}, 1)
  /\ disc = DiscIdle(<<>>, 0, TRUE, 0)
  /\ dl = DlIdle
  /\ ck = CkInit(TRUE)
  /\ th = [t \in Threads |-> ThIdle]
  /\ crawl = CrawlIdle(0)
  /\ rq = RqIdle
  /\ fm \in {FmIdle(doc) : doc \in FmtInputs}
  /\ RestIdle

NextFormat ==
  \/ FormatAgain
  \/ FormatOther

SpecFormat == InitFormat /\ [][NextFormat]_vars

(***************************************************************************)
(* One reorg_files_by_type call on any small tree and ledger.              *)
(***************************************************************************)
InitReorg ==
  /\ ledger \in ReorgRows
  /\ \E R \in SUBSET RootFiles, S \in SUBSET SubFiles :
       /\ Cardinality(R) <= MaxFiles
       /\ Cardinality(R \cup S) <= MaxFiles + 1
       /\ fs = R \cup S
       /\ dirs \in {{DirName}, {DirName, DirSub}}
       /\ S # {} => DirSub \in dirs
  /\ lastOp = Op("none", 0, {}, 1)
  /\ disc = DiscIdle(<<>>, 0, TRUE, 0)
  /\ dl = DlIdle
  /\ ck = CkInit(TRUE)
  /\ th = [t \in Threads |-> ThIdle]
  /\ crawl = CrawlIdle(0)
  /\ rq = RqIdle
  /\ fm = FmIdle(OneDoc)
  /\ fl = FlIdle(<<>>, 0)
  /\ pr = PrIdle(<<>>)
  /\ ro = RoIdle
  /\ cli = CliIdle(NoArgs)
  /\ gp = GpIdle
  /\ pd = PdIdle

NextReorg ==
  \/ ReorgStart
  \/ ReorgFile

SpecReorg == InitReorg /\ [][NextReorg]_vars

(***************************************************************************)
(* One run of the command line with any arguments.                         *)
(***************************************************************************)
InitMain ==
  /\ ledger = {}
  /\ fs = {}
  /\ dirs = {}
  /\ lastOp = Op("none", 0, {}, 1)
  /\ disc = DiscIdle(<<>>, 0, TRUE, 0)
  /\ dl = DlIdle
  /\ ck = CkInit(TRUE)
  /\ th = [t \in Threads |-> ThIdle]
  /\ crawl = CrawlIdle(0)
  /\ rq = RqIdle
  /\ fm = FmIdle(OneDoc)
  /\ fl = FlIdle(<<>>, 0)
  /\ pr = PrIdle(<<>>)
  /\ ro = RoIdle
  /\ cli \in {CliIdle(a) : a \in CliArgs}
  /\ gp = GpIdle
  /\ pd = PdIdle

NextMain ==
  \/ MainStart
  \/ MainMaintenance
  \/ MainRun

SpecMain == InitMain /\ [][NextMain]_vars

(***************************************************************************)
(* One _filter_content call, line by line, on any short run of lines that *)
(* begins at the start of the body or near the end of the first 40 lines.  *)
(***************************************************************************)
InitFilter ==
  /\ ledger = {}
  /\ fs = {}
  /\ dirs = {}
  /\ lastOp = Op("none", 0, {}, 1)
  /\ disc = DiscIdle(<<>>, 0, TRUE, 0)
  /\ dl = DlIdle
  /\ ck = CkInit(TRUE)
  /\ th = [t \in Threads |-> ThIdle]
  /\ crawl = CrawlIdle(0)
  /\ rq = RqIdle
  /\ fm = FmIdle(OneDoc)
  /\ fl \in {FlIdle(c, off) :
               c \in UNION {[1..n -> FilterLines] : n \in 1..MaxFilterLines},
               off \in {0, AnnWindow - 1}}
  /\ pr = PrIdle(<<>>)
  /\ ro = RoIdle
  /\ cli = CliIdle(NoArgs)
  /\ gp = GpIdle
  /\ pd = PdIdle

NextFilter == FilterNext

SpecFilter == InitFilter /\ [][NextFilter]_vars

(***************************************************************************)
(* A batch of documents handed to the parsers one after the other; the     *)
(* worker thread that runs a parser keeps running.                         *)
(***************************************************************************)
InitParse ==
  /\ ledger = {}
  /\ fs = {}
  /\ dirs = {}
  /\ lastOp = Op("none", 0, {}, 1)
  /\ disc = DiscIdle(<<>>, 0, TRUE, 0)
  /\ dl = DlIdle
  /\ ck = CkInit(TRUE)
  /\ th = [t \in Threads |-> ThIdle]
  /\ crawl = CrawlIdle(0)
  /\ rq = RqIdle
  /\ fm = FmIdle(OneDoc)
  /\ fl = FlIdle(<<>>, 0)
  /\ pr \in {PrIdle(q) : q \in UNION {[1..n -> ParseDocsIn] : n \in 1..MaxDocs}}
  /\ ro = RoIdle
  /\ cli = CliIdle(NoArgs)
  /\ gp = GpIdle
  /\ pd = PdIdle

NextParse ==
  \/ ParseCall
  \/ HtmlParse
  \/ WordParse
  \/ ParseReturn

SpecParse == InitParse /\ [][NextParse]_vars /\ WF_vars(NextParse)

(***************************************************************************)
(* One get_path call on any short type string, office text, category and   *)
(* subtype code.                                                           *)
(***************************************************************************)
OfficeChars == {"x", "/", " ", Congress, Standing}

ApiTypeChars == {"x", "/", " ", "_", "d"}

OfficeTexts == UNION {[1..n -> OfficeChars] : n \in 0..MaxOffice}

ApiTypes == UNION {[1..n -> ApiTypeChars] : n \in 0..MaxApiType}

\* category 1 and category 6, the one with jurisdiction subdirectories
PathTypeIds == {1, 6}

\* no subtype code, the codes of the index, and a code that is not in it
FlfgCodes == {NoFlfg, 100, 110, 230, 999}

InitPath ==
  /\ ledger = {}
  /\ fs = {}
  /\ dirs = {}
  /\ lastOp = Op("init", 0, {}, 1)
  /\ disc = DiscIdle(<<>>, 0, TRUE, 0)
  /\ dl = DlIdle
  /\ ck = CkInit(TRUE)
  /\ th = [t \in Threads |-> ThIdle]
  /\ crawl = CrawlIdle(0)
  /\ rq = RqIdle
  /\ fm = FmIdle(OneDoc)
  /\ fl = FlIdle(<<>>, 0)
  /\ pr = PrIdle(<<>>)
  /\ ro = RoIdle
  /\ cli = CliIdle(NoArgs)
  /\ gp \in {GpCall(a, t, c, o) :
               a \in ApiTypes, t \in PathTypeIds, c \in FlfgCodes,
               o \in OfficeTexts}
  /\ pd = PdIdle

NextPath == GetPathReturn

SpecPath == InitPath /\ [][NextPath]_vars

(***************************************************************************)
(* reset_state_flags called on any small ledger of two categories and any  *)
(* set of source files.                                                    *)
(***************************************************************************)
ResetTitle(i) == IF i = 1 THEN <<"x", "/">> ELSE <<"y", IdName(i)[1]>>

\* what a ledger holds for one (category, id): no row, or a row with any
\* flags
RowStates == {<<>>} \cup ({0, 1} \X {0, 1})

\* the keys of the ledgers: every id in the pipeline's category, one id in
\* each other category
ResetKeys == {k \in TypeIds \X Ids : k[1] = PipelineType \/ k[2] = 1}

ResetLedger(f) ==
  {[table |-> k[1], id |-> k[2], title |-> ResetTitle(k[2]),
    saved |-> f[k][1], parsed |-> f[k][2], bbbs_id |-> NoId] :
   k \in {k \in ResetKeys : f[k] # <<>>}}

\* the source files under the sanitised title, one per category directory
ResetFiles ==
  {[dir |-> TypeDir(t), name |-> SanitizeTitle(ResetTitle(1)),
    ext |-> "docx", size |-> FullSize] : t \in TypeIds}

\* every mode, a mode that is none, every type id, 0 and an unknown one
ResetModes == {"missing", "all", "other"}

ResetTargets == {0, 99} \cup TypeIds

InitReset ==
  /\ ledger \in {ResetLedger(f) : f \in [ResetKeys -> RowStates]}
  /\ fs \in SUBSET ResetFiles
  /\ dirs = {TypeDir(t) : t \in TypeIds}
  /\ lastOp = Op("none", 0, {}, 1)
  /\ disc = DiscIdle(<<>>, 0, TRUE, 0)
  /\ dl = DlIdle
  /\ OthersIdle

NextReset ==
  \E mode \in ResetModes, target \in ResetTargets, keep_parsed \in BOOLEAN :
    ResetStateFlags(mode, target, keep_parsed)

SpecReset == InitReset /\ [][NextReset]_vars

(***************************************************************************)
(* One parse_doc call of a parse batch on a row with saved = 1 and         *)
(* parsed = 0, whatever the output paths hold before it.                   *)
(***************************************************************************)
InitParseDoc ==
  /\ ledger = {[PendingRow(1, <<"x">>) EXCEPT !.saved = 1]}
  /\ fs = {}
  /\ dirs = {DirName}
  /\ lastOp = Op("none", 0, {}, 1)
  /\ disc = DiscIdle(<<>>, 0, TRUE, 0)
  /\ dl = DlIdle
  /\ ck = CkInit(TRUE)
  /\ th = [t \in Threads |-> ThIdle]
  /\ crawl = CrawlIdle(0)
  /\ rq = RqIdle
  /\ fm = FmIdle(OneDoc)
  /\ fl = FlIdle(<<>>, 0)
  /\ pr = PrIdle(<<>>)
  /\ ro = RoIdle
  /\ cli = CliIdle(NoArgs)
  /\ gp = GpIdle
  /\ pd \in {PdStart(e, md) : e \in BOOLEAN, md \in [MdPaths -> MdContents]}

NextParseDoc ==
  \/ PdFormat
  \/ PdCheck
  \/ PdPersist
  \/ PdMark

SpecParseDoc == InitParseDoc /\ [][NextParseDoc]_vars


(***************************************************************************)
(* Claims about the ledger flags and the Reconciler.                       *)
(***************************************************************************)
\* C1: in every reachable state every ledger row with parsed = 1 has
\* saved = 1, whatever sequence of crawl insert, download, parse, Sync and
\* flag reset (keep_parsed included) led there.
C1_ParsedImpliesSaved ==
  \A r \in ledger : r.parsed = 1 => r.saved = 1

\* C2: right after a Sync pass every row with a non-empty title has
\* saved = parsed = 1 if a non-empty markdown file named by its sanitised
\* title or its id is present in its directory, and saved = parsed = 0 if
\* there is none.
C2_SyncMatchesPresence ==
  lastOp.op = "sync" =>
    \A r \in RowsOf(ledger, PipelineType) :
      r.title # <<>> =>
        IF MdExists(DetermineDir(dirs), r, fs)
        THEN r.saved = 1 /\ r.parsed = 1
        ELSE r.saved = 0 /\ r.parsed = 0

\* C3: a Sync pass that follows a Sync pass, with the tree unchanged in
\* between, updates no row and leaves the ledger as the first pass left it.
C3_SyncIdempotent ==
  [][(lastOp.op = "sync" /\ lastOp'.op = "sync")
       => (ledger' = ledger /\ lastOp'.n = 0)]_vars

\* a second pass has run after a first pass that had rows to repair
C3_Witness ==
  /\ lastOp.op = "sync" /\ lastOp.seq = 2
  /\ lastOp.ids # {} /\ lastOp.n = 0

\* C7: the ledger insert of a crawl leaves the saved and parsed values of
\* every row that had one of them set and whose id is in the fetched
\* listing as they were.
C7_CrawlKeepsProgress ==
  [][lastOp'.op = "crawl" =>
       \A r \in RowsOf(ledger, PipelineType) :
         (r.id \in lastOp'.ids /\ (r.saved = 1 \/ r.parsed = 1)) =>
           \E q \in RowsOf(ledger', PipelineType) :
             q.id = r.id /\ q.saved = r.saved /\ q.parsed = r.parsed]_vars

(***************************************************************************)
(* Claims about discovery.                                                 *)
(***************************************************************************)
\* C4: a discovery run that follows a discovery run and the insert of what
\* it returned, against the same remote listing, returns no new item.
C4_SecondRunFindsNothing ==
  (disc.phase = "returned" /\ disc.run >= 2) => disc.new = <<>>

\* C5: no item classified as new by a discovery run carries an alternate id
\* (bbbs) that is the bbbs_id of a ledger row.
C5_AltIdNeverNew ==
  disc.phase # "idle" =>
    \A k \in 1..Len(disc.new) :
      \/ disc.new[k].bbbs = NoId
      \/ ~\E r \in ledger : r.bbbs_id = disc.new[k].bbbs

\* a run has counted as existing an item whose bbbs is a ledger bbbs_id
\* and whose id is the id of no ledger row
C5_Witness ==
  /\ disc.phase # "idle"
  /\ \E k \in 1..Len(disc.log) : \E it \in disc.log[k].known :
       /\ it.bbbs # NoId
       /\ \E r \in ledger : r.bbbs_id = it.bbbs
       /\ \A r \in ledger : r.id # it.id

\* C6: the pages are fetched in order from page 1, and no page is fetched
\* after a page that yielded zero new items.
C6_StopsAtZeroNew ==
  /\ \A k \in 1..Len(disc.log) : disc.log[k].page = k
  /\ \A k \in 1..(Len(disc.log) - 1) : disc.log[k].new # 0

\* a fetched page ends the loop: it failed, was empty, or every item of it
\* was counted as existing
PageEnds(e) == ~e.ok \/ e.existing = e.size

\* C6 as the code has it: the pages are fetched in order from page 1, and
\* the loop ends at the first page that failed, was empty or held only
\* items counted as existing, and at no other page.
C6_StopsAtAllKnown ==
  /\ \A k \in 1..Len(disc.log) : disc.log[k].page = k
  /\ \A k \in 1..(Len(disc.log) - 1) : ~PageEnds(disc.log[k])
  /\ disc.phase = "returned" =>
       (disc.log # <<>> /\ PageEnds(disc.log[Len(disc.log)]))
  /\ (disc.phase = "paging" /\ disc.log # <<>>) =>
       ~PageEnds(disc.log[Len(disc.log)])

\* a run went past a page without a new item and ended at a later page all
\* of whose items were counted as existing
C6_Witness ==
  /\ disc.phase = "returned"
  /\ Len(disc.log) >= 2
  /\ disc.log[Len(disc.log)].ok
  /\ disc.log[Len(disc.log)].existing = disc.log[Len(disc.log)].size
  /\ \E k \in 1..(Len(disc.log) - 1) : disc.log[k].new = 0

(***************************************************************************)
(* Claims about download_doc.                                              *)
(***************************************************************************)
\* C8: at every point of download_doc, an interruption included, a file at
\* a final output path (a candidate name with the resolved extension)
\* holds the complete response body; partial or empty content is only ever
\* in a temporary file.
C8_FinalPathsComplete ==
  \A f \in fs : f.ext = "docx" => f.size = FullSize

\* C9: download_doc has written nothing to the file system before a
\* candidate path passed the containment test, and no file lies at a
\* candidate path that leaves the directory.
C9_NoWriteBeforeContainment ==
  /\ dl.wrote => dl.checked
  /\ \A f \in fs : f.ext # "" => SafeJoin(f.name)

\* C10: a download_doc call whose URL has the no-source extension returns
\* success at once, with no binary request and the tree as it was, and the
\* batch that has run it ends with saved = 1 for its row.
C10_SentinelIsSuccess ==
  /\ []((dl.pc = "returned" /\ dl.ext = NoSourceExt)
          => (dl.result = "ok" /\ dl.gets = 0 /\ ~dl.wrote))
  /\ []((dl.pc = "idle" /\ dl.last = "committed")
          => \A i \in dl.nosource : RowOf(ledger, i).saved = 1)
  /\ [][(dl.pc = "fetch_url" /\ dl'.ext = NoSourceExt)
          => (fs' = fs /\ dirs' = dirs /\ dl'.pc = "returned")]_vars

\* a batch has ended with a no-source row marked saved and no file at all
C10_Witness ==
  /\ dl.pc = "idle" /\ dl.last = "committed"
  /\ dl.nosource # {}
  /\ \A i \in dl.nosource : RowOf(ledger, i).saved = 1
  /\ fs = {}

\* a candidate path of the running call holds a non-empty file
CandidateHeld ==
  \E k \in 1..Len(dl.cands) : \E f \in fs :
    f.dir = dl.dir /\ f.name = dl.cands[k] /\ f.ext = dl.ext /\ f.size > 0

CrawlRan == crawl.pc = "idle" /\ crawl.end \in {"inserted", "nodata"}

\* C12: when page 1 reports a total T > 0, crawl_type computes the least
\* number of pages of 10 that hold T items and calls fetch_api exactly once
\* for each page from 2 to that number, besides the one call for page 1;
\* for T = 25 that is 3 pages and 2 further calls.
C12_PagesAndFetches ==
  /\ \A q \in Pages : crawl.w[q].calls <= 1
  /\ CrawlRan =>
       /\ crawl.total > 0
       /\ 10 * crawl.count >= crawl.total
       /\ 10 * (crawl.count - 1) < crawl.total
       /\ \A q \in Pages :
            crawl.w[q].calls = IF q <= crawl.count THEN 1 ELSE 0
       /\ crawl.total = 25 =>
            /\ crawl.count = 3
            /\ Cardinality({q \in Pages \ {1} : crawl.w[q].calls = 1}) = 2

\* a crawl of a category of 25 items has ended after three pages
C12_Witness ==
  /\ CrawlRan
  /\ crawl.total = 25
  /\ crawl.count = 3
  /\ \A q \in 1..3 : crawl.w[q].calls = 1

\* C13: a fetch_api call sends at most 3 requests for its page; every
\* anti-bot answer that is followed by another request is followed first
\* by exactly one clear_cookies and one cooldown; an answer that is not an
\* anti-bot page ends the call with that answer, so one block and then a
\* success is a success after one clear; and the third anti-bot answer
\* ends the call with an error result, not an exception.
C13_AntiBotRetries ==
  \A q \in Pages :
    LET f == crawl.w[q]
    IN /\ f.posts <= 3
       /\ f.clears = f.attempt /\ f.cools = f.attempt
       /\ f.pc \in {"cookies", "handshake"} => f.posts = f.attempt
       /\ f.pc \in {"clear", "errclear", "done"} => f.posts = f.attempt + 1
       /\ f.res = "blocked" => (f.pc = "done" /\ f.posts = 3 /\ f.clears = 2)
       /\ f.res = "ok" => f.clears = f.posts - 1

\* a page was blocked once and fetched at the second attempt
C13_Witness ==
  \E q \in Pages :
    /\ crawl.w[q].res = "ok"
    /\ crawl.w[q].posts = 2
    /\ crawl.w[q].clears = 1
    /\ crawl.w[q].cools = 1

\* the batch is the rows of the pages fetched with success, each once
BatchOfFetched ==
  /\ \A q \in Pages : \A i \in 1..Len(PageData(q, crawl.total)) :
       Cardinality({k \in 1..Len(crawl.data) :
                      crawl.data[k] = PageData(q, crawl.total)[i]})
         = IF crawl.w[q].res = "ok" /\ crawl.w[q].merged THEN 1 ELSE 0
  /\ \A k \in 1..Len(crawl.data) :
       \E q \in Pages : \E i \in 1..Len(PageData(q, crawl.total)) :
         crawl.data[k] = PageData(q, crawl.total)[i]

\* C14 as stated: a crawl that has ended has fetched every page of the
\* category, whichever page failed, and has inserted the rows of the pages
\* fetched with success, each once.
C14_AnyPageFailureNotFatal ==
  (crawl.pc = "idle" /\ crawl.end # "none") =>
    /\ \A q \in 1..PageCount(crawl.total) : crawl.w[q].calls = 1
    /\ BatchOfFetched
    /\ {r.id : r \in ledger} = {crawl.data[k] : k \in 1..Len(crawl.data)}

\* C14 as the code has it: a failed page 1 ends the crawl with no other
\* page fetched and nothing inserted; after a successful page 1 every
\* other page is fetched whatever happens to the rest, and the batch that
\* is inserted holds the rows of page 1 and of every other page fetched
\* with success, each once, in the order the fetches completed.
C14_LaterPageFailureNotFatal ==
  /\ BatchOfFetched
  /\ (crawl.pc = "idle" /\ crawl.end \in {"failed", "raised"}) =>
       /\ crawl.w[1].res # "ok"
       /\ \A q \in Pages \ {1} : crawl.w[q].calls = 0
       /\ ledger = {}
  /\ CrawlRan =>
       /\ crawl.w[1].res = "ok"
       /\ \A q \in 1..PageCount(crawl.total) :
            crawl.w[q].calls = 1 /\ crawl.w[q].merged
       /\ {r.id : r \in ledger} = {crawl.data[k] : k \in 1..Len(crawl.data)}

\* a crawl of three pages has ended with page 2 failed and the rows of
\* pages 1 and 3 in the ledger
C14_Witness ==
  /\ CrawlRan
  /\ crawl.total = 25
  /\ crawl.w[2].res \notin {"ok", "none"}
  /\ crawl.w[3].res = "ok"
  /\ crawl.data = PageData(1, 25) \o PageData(3, 25)
  /\ Cardinality(ledger) = 15

(***************************************************************************)
(* Claims about request() and the cookie cache.                            *)
(***************************************************************************)
\* the turns of the loop that failed
Failed(log) == {k \in 1..Len(log) : log[k] # "ok"}

\* C15: request() makes at most 6 attempts, for GET and for POST alike;
\* it returns the response of the first attempt that succeeds, raises
\* ConnectionError exactly when all 6 attempts have failed, and never
\* returns without a response.
C15_RequestAttempts ==
  /\ Len(rq.log) <= 6
  /\ rq.pc = "loop" => Failed(rq.log) = 1..Len(rq.log) /\ Len(rq.log) < 6
  /\ rq.pc = "returned" =>
       /\ rq.result = "response"
       /\ Failed(rq.log) = 1..(Len(rq.log) - 1)
  /\ rq.pc = "raised" <=> (Len(rq.log) = 6 /\ Failed(rq.log) = 1..6)
  /\ rq.pc = "raised" => rq.result = "ConnectionError"

\* a POST has succeeded at the sixth attempt
C15_Witness ==
  /\ rq.pc = "returned"
  /\ rq.method = "POST"
  /\ Len(rq.log) = 6
  /\ rq.result = "response"

\* the handshakes the threads have begun
RECURSIVE Handshakes(_)
Handshakes(n) == IF n = 0 THEN 0 ELSE th[n].hs + Handshakes(n - 1)

\* thread t is back from get_cookies
Returned(t) == th[t].pc = "idle" /\ th[t].last = "get"

\* C16: while no cookies have been cleared, at most one handshake is in
\* flight at any time, the threads that call get_cookies on the empty
\* cache cause one handshake between them, and all of them get the same
\* cookies, those of that handshake.
C16_SingleFlight ==
  /\ Cardinality({t \in Threads : th[t].pc = "handshake"}) <= 1
  /\ (ck.avail /\ ck.dead = {}) =>
       /\ Handshakes(NumThreads) <= 1
       /\ \A t \in Threads : Returned(t) => th[t].got = 1

\* C17: the cache is empty at the start; a get_cookies call that finds
\* cookies in the cache returns them and starts no handshake; clear_cookies
\* empties the cache; no get_cookies call returns cookies that were
\* cleared before it returned; and a call that finds the cache empty
\* starts a handshake when Playwright is there.
C17_CacheLifecycle ==
  /\ ck.cache = NoCookies
  /\ [][\A t \in Threads :
         /\ (th[t].pc = "idle" /\ th'[t].last = "get"
               /\ th'[t].calls = th[t].calls + 1)
              => /\ th'[t].got = ck.cache /\ ck' = ck
                 /\ th'[t].hs = th[t].hs
                 /\ ck.avail => ck.cache # NoCookies
         /\ (th'[t].calls = th[t].calls + 1 /\ th'[t].last = "clear")
              => (ck'.cache = NoCookies /\ ck.cache \in ck'.dead \cup {NoCookies})
         /\ (th'[t].calls = th[t].calls + 1 /\ th'[t].last = "get")
              => th'[t].got \notin ck'.dead
         /\ (th[t].pc = "idle" /\ th'[t].pc = "handshake")
              => (ck.cache = NoCookies /\ th'[t].hs = th[t].hs + 1)]_vars

\* a thread has got new cookies after the first ones were cleared, and
\* another thread has then got them from the cache
C17_Witness ==
  /\ ck.dead = {1}
  /\ ck.cache = 2
  /\ \E t, u \in Threads :
       /\ t # u
       /\ Returned(t) /\ th[t].got = 2 /\ th[t].hs = 0
       /\ Returned(u) /\ th[u].got = 2 /\ th[u].hs >= 1

\* the fetch of page q sends its request in this step, with no Cookie
\* header
SentBare(q) ==
  /\ crawl'.w[q].posts = crawl.w[q].posts + 1
  /\ ~crawl'.w[q].hdr

\* the fetch of page q comes back from a handshake in this step
HandshakeOver(q) ==
  crawl.w[q].pc = "handshake" /\ crawl'.w[q] # crawl.w[q]

\* C18 as stated: without Playwright, and when the handshake raises,
\* get_cookies returns {} with the cache left empty, and _fetch_api sends
\* its request all the same, without a Cookie header.
C18_EmptyCookiesProceed ==
  [][\A q \in Pages :
       /\ (crawl.w[q].pc = "cookies" /\ crawl'.w[q] # crawl.w[q]
             /\ ~ck.avail)
            => (ck' = ck /\ ck.cache = NoCookies /\ SentBare(q))
       /\ (HandshakeOver(q) /\ ck'.hsEnd \in {"raised", "closing"})
            => (ck'.cache = NoCookies /\ SentBare(q))]_vars

\* C18 as the code has it: without Playwright, and when the handshake
\* raises, get_cookies returns {} and _fetch_api sends its request without
\* a Cookie header; the cache stays empty, except when the exception came
\* after the cookies were assigned, where the cache holds them.
C18_EmptyCookiesProceedCacheMaySet ==
  [][\A q \in Pages :
       /\ (crawl.w[q].pc = "cookies" /\ crawl'.w[q] # crawl.w[q]
             /\ ~ck.avail)
            => (ck' = ck /\ ck.cache = NoCookies /\ SentBare(q))
       /\ (HandshakeOver(q) /\ ck'.hsEnd = "raised")
            => (ck'.cache = NoCookies /\ SentBare(q))
       /\ (HandshakeOver(q) /\ ck'.hsEnd = "closing")
            => (ck'.cache # NoCookies /\ SentBare(q))]_vars

\* a page was fetched with success by a request without cookies, after a
\* handshake that raised and left the cache empty
C18_Witness ==
  /\ ck.avail /\ ck.hsEnd = "raised" /\ ck.cache = NoCookies
  /\ \E q \in Pages :
       crawl.w[q].res = "ok" /\ crawl.w[q].posts = 1 /\ ~crawl.w[q].hdr


C20_EmptyOnlyForEmptyInput ==
  \A out \in fm.outs :
    /\ fm.arg.title # <<>> /\ (fm.arg.description # <<>> \/ fm.arg.content # <<>>)
         => out # <<>>
    /\ out = <<>> => fm.arg.description = <<>> /\ fm.arg.content = <<>>

\* C21: both parsers fail soft: whatever the file, a call of HTML.parse or
\* Word.parse ends, with the extracted triple or with the empty triple and
\* never with an exception, and the documents after a failing one are parsed.
C21_ParsersFailSoft ==
  /\ [](\A k \in 1..Len(pr.results) : pr.results[k].out \in {"extracted", "empty"})
  /\ \A n \in 1..MaxDocs :
       (Len(pr.queue) = n /\ pr.pc = "try") ~> (Len(pr.queue) = n - 1)

\* a file that is not UTF-8 has sent HTML.parse down to the recursion limit
\* and the next document was parsed after it
C21_Witness ==
  /\ pr.queue = <<>>
  /\ Len(pr.results) = MaxDocs
  /\ pr.results[1] = [out |-> "empty", reads |-> RecursionLimit]
  /\ pr.results[MaxDocs].out = "extracted"

\* a file under the category root whose stem is the title of no ledger row
Unmatched(f) ==
  /\ f.dir = DirName
  /\ \A r \in RowsOf(ledger, PipelineType) : f.name \notin FileKeys(r)

\* a step deletes no file and replaces none: a file either stays or has gone
\* from the root to a place where no file was
NothingLost ==
  /\ Cardinality(fs') = Cardinality(fs)
  /\ \A g \in fs : g \in fs' \/ (g.dir = DirName /\ g \in ro.todo)

C23_KeepParsedKeepsParsed ==
  [][\A c \in ResetCalls :
       c[3] /\ ResetStateFlags(c[1], c[2], c[3]) =>
         /\ \A r \in ledger : r \in ledger' \/ [r EXCEPT !.saved = 0] \in ledger'
         /\ \A q \in ledger' : q \in ledger \/ [q EXCEPT !.saved = 1] \in ledger]_vars

\* a reset has taken saved from a parsed row and left parsed
C23_Witness ==
  /\ lastOp.op = "reset"
  /\ \E r \in ledger : r.saved = 0 /\ r.parsed = 1

\* the last call of the run that has ended
LastCall == cli.log[Len(cli.log)]

\* C24: the download operation invoked without a category (type id 0) works
\* on the pending rows of every category, as parse and crawl do.
C24_DownloadAllCategories ==
  cli.pc = "done" /\ cli.args.type = 0 /\ LastCall.f = "download_docs"
    => LastCall.tables = TypeIds

\* the run was asked for this maintenance pass and for nothing else
OnlyPass(flag) ==
  cli.args = [NoArgs EXCEPT ![flag] = TRUE, !.type = cli.args.type]

\* C25: a run that is asked for Sync only, for Reorganize only or for the
\* schema update only calls that pass and, besides initialize_database,
\* nothing else.
C25_MaintenanceAlone ==
  cli.pc = "done" =>
    /\ OnlyPass("sync") =>
         cli.log = <<Call("initialize_database", {}), Call("sync_db", TypeIds)>>
    /\ OnlyPass("reorganize") =>
         cli.log = <<Call("initialize_database", {}),
                     Call("reorg_files", TypeIds)>>
    /\ OnlyPass("update_schema") =>
         cli.log = <<Call("initialize_database", {}),
                     Call("update_schema", {})>>

\* C26: when the rename onto a candidate name fails, download_doc goes on to
\* the next candidate name; the call whose stream was read to its end
\* returns with no temporary file of its own left, and a file it has placed
\* under a candidate name holds the complete body.
C26_RenameRetry ==
  /\ [][(dl.pc = "replace" /\ dl'.pc = "open") => dl'.k = dl.k + 1]_vars
  /\ []((dl.pc = "returned" /\ dl.consumed) =>
          /\ ~\E f \in fs : f.dir = dl.dir /\ f.name = dl.tmp /\ f.ext = ""
          /\ dl.result = "ok" =>
               \E f \in fs : /\ f.dir = dl.dir /\ f.name = dl.cands[dl.k]
                             /\ f.ext = dl.ext /\ f.size = FullSize)


\* the line the loop of _filter_content is about to look at, its number,
\* and whether it is the line right after a table-of-contents marker
FlLine == fl.content[fl.i + 1]
FlIndex == fl.off + fl.i
AfterMarker == fl.s.menuAt >= 0 /\ FlIndex = fl.s.menuAt + 1

\* the line matches the pattern the line after the marker established: it
\* is that line, or the same kind of heading numbered one; a pattern line
\* that is no heading leaves the generic section starts instead
MatchesEstablished ==
  \/ FlLine = fl.s.pattern
  \/ IF fl.s.regex THEN MatchesPatternRegex(FlLine)
                   ELSE MatchesLineStart(FlLine)

\* C27: a table-of-contents marker line puts the filter in the menu state;
\* the marker line and the line right after it, which establishes the
\* pattern, are not emitted; every later line is dropped while in the menu
\* state; the first line that matches the established pattern (or, when the
\* pattern line is no heading, a generic section start) ends the menu state
\* and is emitted, like the lines after it.
C27_MenuState ==
  [][fl'.i = fl.i + 1 =>
       /\ AfterMarker =>
            /\ fl'.s.out = fl.s.out
            /\ fl'.s.pattern = FlLine
            /\ fl'.s.menu
       /\ (~AfterMarker /\ FlLine = "toc") =>
            /\ fl'.s.menu
            /\ fl'.s.out = fl.s.out
       /\ (~AfterMarker /\ FlLine # "toc" /\ fl.s.menu) =>
            IF MatchesEstablished
            THEN /\ ~fl'.s.menu
                 /\ (~fl.s.skip /\ FlLine \notin {" ", "ann"}) =>
                      fl'.s.out = Append(fl.s.out, FlLine)
            ELSE /\ fl'.s.menu
                 /\ fl'.s.out = fl.s.out
       /\ (~fl.s.menu /\ FlLine # "toc") => ~fl'.s.menu]_vars

\* a pattern line that is no heading, a later heading that is not a generic
\* section start is dropped, and 第一条 ends the table of contents
C27_Witness ==
  /\ fl.content = <<"toc", "x", "head2", "art1">>
  /\ fl.i = 4
  /\ ~fl.s.menu
  /\ fl.s.out = <<"art1">>

\* the flag and the emitted lines, whatever the line
SkipAndOutput ==
  /\ (~fl.s.skip /\ fl'.s.skip) => (FlLine = "ann" /\ FlIndex < AnnWindow)
  /\ (fl.s.skip /\ ~fl'.s.skip) => FlLine = "fashi"
  /\ fl'.s.out # fl.s.out => (~fl.s.skip /\ ~fl'.s.skip /\ ~fl'.s.menu)
  /\ (FlLine # " " /\ ~fl.s.skip /\ ~fl'.s.skip /\ ~fl'.s.menu) =>
       fl'.s.out = Append(fl.s.out, FlLine)
  /\ fl'.s.out \in {fl.s.out, Append(fl.s.out, FlLine)}

\* C28: skip is activated only by a line among the first 40 that matches
\* the announcement marker and is deactivated by a line that starts with
\* the judicial-interpretation marker; no line is emitted while skip is
\* active or in the menu state, and every non-blank line outside both is
\* emitted, in input order.
C28_SkipFlag ==
  [][fl'.i = fl.i + 1 =>
       /\ SkipAndOutput
       /\ FlLine = "fashi" => ~fl'.s.skip]_vars

C30_ParseBatch ==
  [][lastOp'.op \in {"parse_docs", "parse_items"} =>
       /\ ledger' = {[r EXCEPT !.parsed = IF r.table = PipelineType
                                             /\ r.id \in lastOp'.ids
                                          THEN 1 ELSE @] : r \in ledger}
       /\ \A i \in lastOp'.ids : \E r \in RowsOf(ledger, PipelineType) :
            /\ r.id = i
            /\ r.saved = 1
            /\ lastOp'.op = "parse_docs" => r.parsed = 0]_vars

\* parse_docs has run on two rows, one of them succeeded and the other one
\* did not
C30_Witness ==
  /\ lastOp.op = "parse_docs" /\ lastOp.n = 2
  /\ \E r \in RowsOf(ledger, PipelineType) :
       r.id \in lastOp.ids /\ r.saved = 1 /\ r.parsed = 1
  /\ \E r \in RowsOf(ledger, PipelineType) :
       r.id \notin lastOp.ids /\ r.saved = 1 /\ r.parsed = 0 /\ r.title # <<>>

\* C31: on every page that was fetched the counts of the items taken as
\* existing, as new and as invalid add up to the number of items of the
\* page.
C31_PagePartition ==
  \A k \in 1..Len(disc.log) :
    disc.log[k].ok =>
      disc.log[k].existing + disc.log[k].new + disc.log[k].invalid
        = disc.log[k].size

\* C32: every component get_path appends below the category root, the
\* subcategory folder and the jurisdiction subdirectory alike, holds none
\* of the characters / \ : * ? " < > |.
C32_PartsSanitized ==
  gp.pc = "done" =>
    \A k \in 1..Len(gp.parts) :
      \A j \in 1..Len(gp.parts[k]) : gp.parts[k][j] \notin PathChars

\* C33: a call of reset_state_flags in mode "all" without keep_parsed leaves
\* every row of each selected category with saved = 0 and parsed = 0; in
\* mode "missing" the rows whose source file is found keep both flags and
\* the others are reset; a call with another mode or an unknown category
\* changes no row; the rows of a category that was not selected are never
\* changed.
C33_ResetFlags ==
  [][\A mode \in ResetModes, target \in ResetTargets, keep \in BOOLEAN :
       ResetStateFlags(mode, target, keep) =>
         LET valid == mode \in {"missing", "all"}
                        /\ target \in {0} \cup TypeIds
             types == IF target = 0 THEN TypeIds ELSE {target}
             found(r) == FindDocIn(TypeDir(r.table), r.title, fs, dirs)
             zero(r) == [r EXCEPT !.saved = 0, !.parsed = 0]
         IN /\ ~valid => ledger' = ledger
            /\ Cardinality(ledger') = Cardinality(ledger)
            /\ \A r \in ledger :
                 /\ (valid /\ r.table \notin types) => r \in ledger'
                 /\ (valid /\ r.table \in types /\ mode = "all" /\ ~keep)
                      => zero(r) \in ledger'
                 /\ (valid /\ r.table \in types /\ mode = "missing")
                      => IF found(r) THEN r \in ledger'
                         ELSE keep \/ zero(r) \in ledger']_vars

\* a reset has run and left a flagged row whose file is found next to a
\* row without a file that is at saved = 0, parsed = 0, and a flagged row
\* in the other category
C33_Witness ==
  /\ lastOp.op = "reset"
  /\ \E r \in ledger, q \in ledger, o \in ledger :
       /\ r.table = q.table /\ o.table # r.table
       /\ r.saved = 1 /\ r.parsed = 1
       /\ FindDocIn(TypeDir(r.table), r.title, fs, dirs)
       /\ q.saved = 0 /\ q.parsed = 0
       /\ ~FindDocIn(TypeDir(q.table), q.title, fs, dirs)
       /\ o.saved = 1
       /\ ~FindDocIn(TypeDir(o.table), o.title, fs, dirs)

\* C34: when download_doc returns success after it fetched the document
\* and stored it, under whichever candidate name and in whichever directory
\* of its chain, find_doc finds a source file for the row's title.
C34_StoredIsFound ==
  (dl.pc = "returned" /\ dl.result = "ok" /\ dl.gets > 0) =>
    FindDoc(RowOf(ledger, dl.cur).title, fs, dirs)

\* C35: for a row that was downloaded and parsed, its markdown written
\* next to the source file in the directory get_path chose, the Sync pass
\* finds the markdown and so sets, and leaves, saved = 1 and parsed = 1.
C35_SyncKeepsParsed ==
  (gp.pc = "done" /\ "/" \notin Range(gp.office)) =>
    SyncTargetIn(gp.main_type_id, gp.office, gp.parts) = 1

\* the tree holds a non-empty source file for the row, in the first
\* directory and under one of its candidate names
StoredFor(r) ==
  \E f \in fs :
    /\ f.dir = DirName /\ f.ext = "docx" /\ f.size > 0
    /\ \E k \in 1..Len(CandidateNames(r.id, r.title)) :
         f.name = CandidateNames(r.id, r.title)[k]

\* C36: when a download run has stored the file of a row and the process
\* stopped before the saved = 1 update, the download_docs run that comes
\* next ends with saved = 1 for that row.
C36_ResumeMarksSaved ==
  (dl.pc = "idle" /\ dl.last = "typeerror") =>
    \A r \in RowsOf(ledger, PipelineType) : StoredFor(r) => r.saved = 1

\* C37: the items check_items returns as new hold at most one item per
\* primary id, whatever the remote listing repeats.
C37_NewOncePerId ==
  disc.phase = "returned" =>
    \A i \in 1..Len(disc.new) : \A j \in 1..Len(disc.new) :
      PrimaryId(disc.new[i]) = PrimaryId(disc.new[j]) => i = j

\* C38: the loop of _paginate ends for every finite listing; each turn
\* that does not end it moves to the next page; it ends at the first page
\* that is empty, is an error or holds only known items; a page that is an
\* error or empty ends the loop with the new items collected before it.
C38_PaginateEnds ==
  /\ (disc.phase = "paging") ~> (disc.phase = "returned")
  /\ [][disc.phase = "paging" =>
          LET resp == FetchApi(disc.remote, disc.failAt, disc.page)
              res == Page(resp.data, disc.ids, disc.titles, disc.titleCheck)
              failed == resp.error \/ resp.data = <<>>
          IN IF failed \/ res.existing = Len(resp.data)
             THEN /\ disc'.phase = "returned"
                  /\ disc'.page = disc.page
                  /\ failed => disc'.new = disc.new
             ELSE /\ disc'.phase = "paging"
                  /\ disc'.page = disc.page + 1]_vars

\* a run has ended at a page that was an error, after a page that gave it
\* new items, and those are what it returns
C38_Witness ==
  /\ disc.phase = "returned"
  /\ disc.page > 1 /\ disc.failAt = disc.page
  /\ disc.new # <<>>
  /\ ~disc.log[Len(disc.log)].ok

=============================================================================
